---- MODULE Spec2Model ----
(***************************************************************************)
(* A model of the class-partitioned dmclock scheduler of                   *)
(* src/src/dmclock_server.h: tag arithmetic, the seven client heaps, the   *)
(* dispatch ladder of do_next_request, the window roll-over with class     *)
(* migration and reservation compensation, pop_process_request, the        *)
(* janitor do_clean and the pull / push facades.                           *)
(*                                                                         *)
(* Numbers.  Time and tags are doubles in the source.  Here time is        *)
(* counted in units of 1/TU second, and every rate used divides TU, so     *)
(* that every inverse rate, every tag and every time is an integer and     *)
(* the arithmetic of the source is exact.  +infinity / -infinity are the   *)
(* sentinels max_tag / min_tag with saturating addition.                   *)
(***************************************************************************)
EXTENDS Integers, Sequences, FiniteSets, TLC

-----------------------------------------------------------------------------
(* Scale and sentinels *)

\* time units per second
TU == 11 * 10

max_tag == 1000000
min_tag == 0 - max_tag
TimeZero == 0
TimeMax == max_tag - 1

Max(a, b) == IF a < b THEN b ELSE a
Min(a, b) == IF b < a THEN b ELSE a

\* IEEE addition restricted to the values that occur: an infinity absorbs
TagAdd(a, b) ==
  IF a >= max_tag THEN max_tag
  ELSE IF a <= min_tag THEN min_tag
  ELSE a + b

\* conversion of a double to int / unsigned: truncation toward zero
TruncDiv(a, b) == IF a >= 0 THEN a \div b ELSE 0 - ((0 - a) \div b)

-----------------------------------------------------------------------------
(* Configuration of the queue under analysis *)

\* the client identifiers that may submit requests
Clients == {1, 2}

\* constructor arguments _system_capacity (requests / second) and
\* _mclock_win_size (here in time units)
system_capacity == 15
win_size == 13

\* constructor argument _anticipation_timeout (default)
anticipation_timeout == 0

\* janitor ages, in time units (erase_age >= idle_age > check_time)
check_time == win_size - 1
idle_age == win_size
erase_age == 2 * win_size

\* bounds of the exploration
MaxTick == 3
MaxSteps == 3
MaxAdmin == 1

\* the explorations: how many requests, clock steps and administrative
\* calls (a ClientInfo change or remove_by_client) a behaviour may hold, and
\* the _system_capacity the queue is constructed with
Profiles ==
  {[ticks |-> MaxTick, steps |-> MaxSteps, admin |-> 0,
    capacity |-> system_capacity],
   [ticks |-> MaxTick - 1, steps |-> MaxSteps - 1, admin |-> MaxAdmin,
    capacity |-> system_capacity],
   [ticks |-> MaxTick, steps |-> MaxSteps - 2, admin |-> MaxAdmin,
    capacity |-> system_capacity]}

\* the clock when the queue is constructed (get_time() is far past any
\* tag increment and any window)
Epoch == 2 * TU

-----------------------------------------------------------------------------
(* ClientInfo *)

ClientTypes == {"R", "B", "A", "O"}

RateInv(rate) == IF rate = 0 THEN 0 ELSE TU \div rate

ClientInfo(_reservation, _weight, _limit, _client_type) ==
  [reservation |-> _reservation,
   weight |-> _weight,
   limit |-> _limit,
   reservation_inv |-> RateInv(_reservation),
   weight_inv |-> RateInv(_weight),
   limit_inv |-> RateInv(_limit),
   client_type |-> _client_type]

-----------------------------------------------------------------------------
(* RequestTag *)

\* tag_calc with the high extreme whatever the field
tag_calc_high(time, prev, increment, dist_req_val, extreme_is_high) ==
  IF increment = 0
  THEN max_tag
  ELSE LET inc == IF dist_req_val # 0 THEN increment * dist_req_val
                  ELSE increment
       IN Max(time, TagAdd(prev, inc))

tag_calc(time, prev, increment, dist_req_val, extreme_is_high) ==
  IF increment = 0
  THEN (IF extreme_is_high THEN max_tag ELSE min_tag)
  ELSE LET inc == IF dist_req_val # 0 THEN increment * dist_req_val
                  ELSE increment
       IN Max(time, TagAdd(prev, inc))

\* RequestTag without the anticipation timeout
RequestTag_late(prev_tag, client, delta, rho, time, anticipation) ==
  [reservation |-> tag_calc(time, prev_tag.reservation,
                            client.reservation_inv, rho, TRUE),
   proportion |-> tag_calc(time, prev_tag.proportion,
                           client.weight_inv, delta, TRUE),
   limit |-> tag_calc(time, prev_tag.limit,
                      client.limit_inv, delta, FALSE),
   ready |-> FALSE,
   arrival |-> time]

\* RequestTag(prev_tag, client, delta, rho, time, cost, anticipation_timeout)
RequestTag(prev_tag, client, delta, rho, time, anticipation) ==
  LET max_time == IF time - anticipation < prev_tag.arrival
                  THEN time - anticipation ELSE time
  IN [reservation |-> tag_calc(max_time, prev_tag.reservation,
                               client.reservation_inv, rho, TRUE),
      proportion |-> tag_calc(max_time, prev_tag.proportion,
                              client.weight_inv, delta, TRUE),
      limit |-> tag_calc(max_time, prev_tag.limit,
                         client.limit_inv, delta, FALSE),
      ready |-> FALSE,
      arrival |-> time]

\* RequestTag(_res, _prop, _lim, _arrival)
RequestTag4(_res, _prop, _lim, _arrival) ==
  [reservation |-> _res, proportion |-> _prop, limit |-> _lim,
   ready |-> FALSE, arrival |-> _arrival]

\* the assertion both constructors end with
TagAssert(tag) == tag.reservation < max_tag \/ tag.proportion < max_tag

-----------------------------------------------------------------------------
(* ClientRec *)

HeapNames == {"resv_heap", "deltar_heap", "r_limit_heap", "limit_heap",
              "burst_heap", "best_heap", "best_limit_heap"}

\* the heaps a client of a given class is pushed into
HeapsOfType(t) ==
  IF t = "R" THEN {"resv_heap", "r_limit_heap", "deltar_heap"}
  ELSE IF t = "B" THEN {"limit_heap", "burst_heap"}
  ELSE {"best_heap", "best_limit_heap"}

\* ClientRec(_client, _info, current_tick); resource is not initialised by
\* the constructor: resource.init = FALSE
ClientRec(_info, current_tick) ==
  [prev_tag |-> RequestTag4(0, 0, 0, TimeZero),
   requests |-> << >>,
   prop_delta |-> 0,
   heap_data |-> [h \in HeapNames |-> 0],
   info |-> _info,
   idle |-> TRUE,
   last_tick |-> current_tick,
   cur_rho |-> 1,
   cur_delta |-> 1,
   resource |-> [init |-> FALSE, weight |-> 0, total_wgt |-> 0],
   deltar_counter |-> 0,
   deltar_break_limit_counter |-> 0,
   b_counter |-> 0,
   b_break_limit_counter |-> 0,
   r0_counter |-> 0,
   r0_break_limit_counter |-> 0,
   be_counter |-> 0,
   be_break_limit_counter |-> 0,
   r_compensation |-> 0]

has_request(rec) == rec.requests # << >>
next_request(rec) == Head(rec.requests)
request_count(rec) == Len(rec.requests)

assign_unpinned_tag(lhs, rhs) ==
  IF rhs # max_tag /\ rhs # min_tag THEN rhs ELSE lhs

\* ClientRec::update_req_tag
update_req_tag(rec, _prev, _tick) ==
  [rec EXCEPT
     !.prev_tag = [reservation |-> assign_unpinned_tag(@.reservation, _prev.reservation),
                   limit |-> assign_unpinned_tag(@.limit, _prev.limit),
                   proportion |-> assign_unpinned_tag(@.proportion, _prev.proportion),
                   ready |-> @.ready,
                   arrival |-> _prev.arrival],
     !.last_tick = _tick]

\* ClientRec::add_request
rec_add_request(rec, tag, request) ==
  [rec EXCEPT !.requests = Append(@, [tag |-> tag, request |-> request])]

\* pop_request taking the newest request instead of the oldest
pop_request_back(rec) ==
  [rec EXCEPT !.requests = SubSeq(@, 1, Len(@) - 1)]

\* pop_request dropping the request behind the head as well
pop_request_two(rec) ==
  [rec EXCEPT !.requests = IF Len(@) > 1 THEN Tail(Tail(@)) ELSE Tail(@)]

\* ClientRec::pop_request
pop_request(rec) == [rec EXCEPT !.requests = Tail(@)]

-----------------------------------------------------------------------------
(* ClientCompare and the heaps' template arguments *)

TagField(tag, tag_field) ==
  IF tag_field = "reservation" THEN tag.reservation
  ELSE IF tag_field = "proportion" THEN tag.proportion
  ELSE tag.limit

\* "n1 must precede n2"
ClientCompare(tag_field, ready_opt, use_prop_delta, n1, n2) ==
  IF has_request(n1)
  THEN IF has_request(n2)
       THEN LET t1 == next_request(n1).tag
                t2 == next_request(n2).tag
            IN IF ready_opt = "ignore" \/ t1.ready = t2.ready
               THEN IF use_prop_delta
                    THEN TagAdd(TagField(t1, tag_field), n1.prop_delta)
                         < TagAdd(TagField(t2, tag_field), n2.prop_delta)
                    ELSE TagField(t1, tag_field) < TagField(t2, tag_field)
               ELSE IF ready_opt = "raises" THEN t1.ready
               ELSE t2.ready
       ELSE TRUE
  ELSE FALSE

HeapCompare(h, n1, n2) ==
  LET by_proportion == h \in {"deltar_heap", "burst_heap", "best_heap"}
  IN ClientCompare(IF h = "resv_heap" THEN "reservation"
                   ELSE IF by_proportion THEN "proportion" ELSE "limit",
                   IF h = "resv_heap" THEN "ignore"
                   ELSE IF by_proportion THEN "raises" ELSE "lowers",
                   by_proportion, n1, n2)

-----------------------------------------------------------------------------
(* The scheduler state as one record, so that a handler is an operator     *)
(* from state to state.  aborted # "no": the process has died (a failed    *)
(* assert, or a crash).  ub selects which outcome a build-dependent        *)
(* operation has in this step (1: the process dies at an undefined access  *)
(* or a failed assert / an indeterminate double compares low, 2: a stale   *)
(* read goes on, an access outside a heap's vector corrupts memory, the    *)
(* assert is compiled out / the double compares high); ub_hit records      *)
(* that the step met one.                                                  *)

Rec(S, c) == S.client_map[c]

UB(S) ==
  [S EXCEPT !.ub_hit = TRUE,
            !.aborted = IF S.ub = 1 THEN "segv" ELSE @]

\* an access outside a heap's vector: the process dies of it, or memory
\* is corrupted and nothing more is known of the process
Corrupt(S) ==
  [S EXCEPT !.ub_hit = TRUE,
            !.aborted = IF S.ub = 1 THEN "segv" ELSE "corrupt"]

\* a failed assert(): the process aborts, or (a build with NDEBUG) goes on
AssertFail(S) ==
  [S EXCEPT !.ub_hit = TRUE,
            !.assert_failed = TRUE,
            !.aborted = IF S.ub = 1 THEN "assert" ELSE @]

\* the rest of a handler, K, runs unless the process has died
Then(S, K(_)) == IF S.aborted # "no" THEN S ELSE K(S)

-----------------------------------------------------------------------------
(* IndIntruHeap<..., K = 2>: a vector of client references, each client    *)
(* record holding its index in the vector (heap_data).  Indices are        *)
(* 0-based as in the source; data[i] is S.heaps[h][i + 1].                 *)

HeapSize(S, h) == Len(S.heaps[h])
HeapAt(S, h, i) == S.heaps[h][i + 1]
HeapEmpty(S, h) == S.heaps[h] = << >>
HeapTop(S, h) == S.heaps[h][1]

\* comparator(*data[i], *data[j])
Precedes(S, h, i, j) ==
  HeapCompare(h, Rec(S, HeapAt(S, h, i)), Rec(S, HeapAt(S, h, j)))

\* std::swap(data[i], data[j]) and the two intru_data_of assignments
HeapSwap(S, h, i, j) ==
  LET a == HeapAt(S, h, i)
      b == HeapAt(S, h, j)
  IN IF i = j THEN [S EXCEPT !.client_map[a].heap_data[h] = i]
     ELSE [S EXCEPT !.heaps[h] = [@ EXCEPT ![i + 1] = b, ![j + 1] = a],
                    !.client_map[b].heap_data[h] = i,
                    !.client_map[a].heap_data[h] = j]

\* count is passed explicitly: remove() sifts with the count already
\* decremented and the removed element still in the vector
RECURSIVE sift_up(_, _, _)
sift_up(S, h, i) ==
  IF i > 0
  THEN IF i >= HeapSize(S, h) THEN Corrupt(S)
       ELSE LET pi == (i - 1) \div 2
            IN IF ~Precedes(S, h, i, pi) THEN S
               ELSE sift_up(HeapSwap(S, h, i, pi), h, pi)
  ELSE S

RECURSIVE sift_down(_, _, _, _)
sift_down(S, h, i, count) ==
  IF i >= count THEN S
  ELSE LET li == 2 * i + 1
           ri == 1 + li
           \* data[i] goes down to the child it is swapped with
           Down(to) == IF to = i THEN S
                       ELSE sift_down(HeapSwap(S, h, i, to), h, to, count)
       IN Down(IF li < count
               THEN IF Precedes(S, h, li, i)
                    THEN IF ri < count /\ Precedes(S, h, ri, li)
                         THEN ri ELSE li
                    ELSE IF ri < count /\ Precedes(S, h, ri, i)
                         THEN ri ELSE i
               ELSE i)

sift(S, h, i, count) ==
  IF i # 0 /\ i >= HeapSize(S, h) THEN Corrupt(S)
  ELSE IF i # 0 /\ Precedes(S, h, i, (i - 1) \div 2) THEN sift_up(S, h, i)
  ELSE sift_down(S, h, i, count)

\* heap.push(item)
HeapPush(S, h, c) ==
  IF S.aborted # "no" THEN S
  ELSE LET i == HeapSize(S, h)
       IN sift_up([S EXCEPT !.heaps[h] = Append(@, c),
                            !.client_map[c].heap_data[h] = i], h, i)

\* heap.promote(item), heap.demote(item), heap.adjust(item): the position
\* is the index stored in the item, whether or not the item is in the heap
HeapPromote(S, h, c) ==
  IF S.aborted # "no" THEN S
  ELSE sift_up(S, h, Rec(S, c).heap_data[h])

HeapDemote(S, h, c) ==
  IF S.aborted # "no" THEN S
  ELSE sift_down(S, h, Rec(S, c).heap_data[h], HeapSize(S, h))

HeapAdjust(S, h, c) ==
  IF S.aborted # "no" THEN S
  ELSE sift(S, h, Rec(S, c).heap_data[h], HeapSize(S, h))

\* heap.remove(i) for an index inside the vector
HeapRemove(S, h, i) ==
  LET last == HeapSize(S, h) - 1
      a == HeapAt(S, h, i)
      b == HeapAt(S, h, last)
      \* std::swap(data[i], data[--count]); intru_data_of(data[i]) = i;
      S1 == [S EXCEPT !.heaps[h] = [@ EXCEPT ![i + 1] = b, ![last + 1] = a],
                      !.client_map[b].heap_data[h] = i]
  IN Then(sift(S1, h, i, last),
          LAMBDA S2 : [S2 EXCEPT !.heaps[h] = SubSeq(@, 1, last)])

\* heap.rfind(client): the index of the client, or end() = count
HeapRfind(S, h, c) ==
  IF \E i \in 0 .. HeapSize(S, h) - 1 : HeapAt(S, h, i) = c
  THEN CHOOSE i \in 0 .. HeapSize(S, h) - 1 : HeapAt(S, h, i) = c
  ELSE HeapSize(S, h)

\* delete_from_heap(client, heap); remove(end()) reads past the vector
delete_from_heap(S, c, h) ==
  IF S.aborted # "no" THEN S
  ELSE LET At(i) == IF i >= HeapSize(S, h) THEN Corrupt(S)
                    ELSE HeapRemove(S, h, i)
       IN At(HeapRfind(S, h, c))

-----------------------------------------------------------------------------
(* Resources *)

\* add_total_wgt_and_update_client_res giving every client the same share,
\* whatever its weight
add_total_wgt_and_update_client_res_flat(S, wgt) ==
  IF S.aborted # "no" THEN S
  ELSE LET tw == S.total_wgt + wgt
       IN [S EXCEPT !.total_wgt = tw,
                    !.client_map = [c \in DOMAIN S.client_map |->
                       [S.client_map[c] EXCEPT !.resource =
                          [init |-> TRUE,
                           weight |-> 1,
                           total_wgt |-> tw]]]]

\* add_total_wgt_and_update_client_res(wgt): resource =
\* system_capacity * info->weight * win_size / total_wgt, kept as the
\* weight and the total it was computed from
add_total_wgt_and_update_client_res(S, wgt) ==
  IF S.aborted # "no" THEN S
  ELSE LET tw == S.total_wgt + wgt
       IN [S EXCEPT !.total_wgt = tw,
                    !.client_map = [c \in DOMAIN S.client_map |->
                       [S.client_map[c] EXCEPT !.resource =
                          [init |-> TRUE,
                           weight |-> S.client_map[c].info.weight,
                           total_wgt |-> tw]]]]

\* UnderBudget with the budget one request short
UnderBudget_short(S, counter, resource, reserved_num) ==
  IF ~resource.init THEN S.ub = 2
  ELSE IF resource.total_wgt > 0
       THEN (counter + 1) * TU * resource.total_wgt
            < S.system_capacity * resource.weight * win_size
              - reserved_num * resource.total_wgt
  ELSE IF resource.total_wgt = 0 THEN resource.weight > 0
  ELSE FALSE

\* counter < std::max(resource - reserved, 0.0), where reserved is a number
\* of requests given as the fraction reserved_num / TU; resource is
\* system_capacity * weight * win_size / (TU * total_wgt): +inf when the
\* total is 0 and the weight is not, NaN when both are 0 (every comparison
\* with NaN is false).  An indeterminate resource compares as S.ub says.
UnderBudget(S, counter, resource, reserved_num) ==
  IF ~resource.init THEN S.ub = 2
  ELSE IF resource.total_wgt > 0
       THEN counter * TU * resource.total_wgt
            < S.system_capacity * resource.weight * win_size
              - reserved_num * resource.total_wgt
  ELSE IF resource.total_wgt = 0 THEN resource.weight > 0
  ELSE FALSE

\* the step read an indeterminate value
ReadResource(S, c) ==
  IF Rec(S, c).resource.init THEN S ELSE [S EXCEPT !.ub_hit = TRUE]

-----------------------------------------------------------------------------
(* client_info_wrapper *)

client_info_wrapper(S, c) ==
  IF Rec(S, c).info.client_type = "R"
  THEN S.compensated_client_map[c]
  ELSE Rec(S, c).info

\* heap.adjust / push / demote of one client on each heap of a list, in
\* the order of the list
RECURSIVE AdjustEach(_, _, _)
AdjustEach(S, hs, c) ==
  IF hs = << >> THEN S
  ELSE AdjustEach(HeapAdjust(S, Head(hs), c), Tail(hs), c)

RECURSIVE PushEach(_, _, _)
PushEach(S, hs, c) ==
  IF hs = << >> THEN S
  ELSE PushEach(HeapPush(S, Head(hs), c), Tail(hs), c)

RECURSIVE DemoteEach(_, _, _)
DemoteEach(S, hs, c) ==
  IF hs = << >> THEN S
  ELSE DemoteEach(HeapDemote(S, Head(hs), c), Tail(hs), c)

\* the heaps of a class in the order do_add_request names them
HeapOrder(t) ==
  IF t = "R" THEN <<"resv_heap", "r_limit_heap", "deltar_heap">>
  ELSE IF t = "B" THEN <<"limit_heap", "burst_heap">>
  ELSE <<"best_heap", "best_limit_heap">>

\* the adjust and the push calls made on the heaps of the client's class
AdjustByType(S, c, t) == AdjustEach(S, HeapOrder(t), c)

PushByType(S, c, t) == PushEach(S, HeapOrder(t), c)

-----------------------------------------------------------------------------
(* do_add_request *)

\* lowest_prop_tag taken over every client, the idle ones included
LowestPropTag_all(S) ==
  LET P(c) == IF has_request(Rec(S, c))
              THEN TagAdd(next_request(Rec(S, c)).tag.proportion,
                          Rec(S, c).prop_delta)
              ELSE TagAdd(Rec(S, c).prev_tag.proportion, Rec(S, c).prop_delta)
      act == DOMAIN S.client_map
  IN IF \E c \in act : P(c) < TimeMax
     THEN CHOOSE p \in {P(c) : c \in act} : \A c \in act : p <= P(c)
     ELSE TimeMax

\* the idle client's proportion realignment (lowest_prop_tag over the
\* clients not idle; the initial value is the largest finite double)
LowestPropTag(S) ==
  LET P(c) == IF has_request(Rec(S, c))
              THEN TagAdd(next_request(Rec(S, c)).tag.proportion,
                          Rec(S, c).prop_delta)
              ELSE TagAdd(Rec(S, c).prev_tag.proportion, Rec(S, c).prop_delta)
      act == {c \in DOMAIN S.client_map : ~Rec(S, c).idle}
  IN IF \E c \in act : P(c) < TimeMax
     THEN CHOOSE p \in {P(c) : c \in act} : \A c \in act : p <= P(c)
     ELSE TimeMax

\* the creation branch: the record, the heaps of its class, the maps and
\* the weight total
CreateClient(S, client_id, info) ==
  LET S1 == [S EXCEPT !.client_map =
               [c \in DOMAIN @ \cup {client_id} |->
                  IF c = client_id THEN ClientRec(info, S.tick) ELSE @[c]]]
      Weighed(S3) == IF info.client_type # "O"
                     THEN add_total_wgt_and_update_client_res(S3, info.weight)
                     ELSE S3
  IN Weighed([PushByType(S1, client_id, info.client_type)
                EXCEPT !.compensated_client_map =
                  [c \in DOMAIN @ \cup {client_id} |->
                     IF c = client_id
                     THEN ClientInfo(info.reservation, info.weight,
                                     info.limit, info.client_type)
                     ELSE @[c]]])

\* the idle branch
Unidle(S, c, time) ==
  IF Rec(S, c).idle
  THEN LET Realign(lowest_prop_tag) ==
             [S EXCEPT !.client_map[c].prop_delta =
                          IF lowest_prop_tag < TimeMax
                          THEN lowest_prop_tag - time ELSE @,
                       !.client_map[c].idle = FALSE]
       IN Realign(LowestPropTag(S))
  ELSE S

\* the tag of the new request (delayed tag calculation): a real tag only
\* when the queue is empty, else the placeholder RequestTag(0, 0, 0, time)
AddTag(S, c, req_params, time, request) ==
  IF ~has_request(Rec(S, c))
  THEN LET Tagged(tag) ==
             Then(IF TagAssert(tag) THEN S ELSE AssertFail(S),
                  LAMBDA S1 :
                    [S1 EXCEPT !.client_map[c] =
                       rec_add_request(update_req_tag(@, tag, S.tick),
                                       tag, request)])
       IN Tagged(RequestTag(Rec(S, c).prev_tag, client_info_wrapper(S, c),
                            req_params.delta, req_params.rho, time,
                            anticipation_timeout))
  ELSE [S EXCEPT !.client_map[c] =
          rec_add_request(@, RequestTag4(0, 0, 0, time), request)]

do_add_request(S0, request, client_id, req_params, time, info_f) ==
  LET S == [S0 EXCEPT !.tick = @ + 1]
      Settle(S5) ==
        AdjustByType(
          [S5 EXCEPT !.client_map[client_id].cur_rho = req_params.rho,
                     !.client_map[client_id].cur_delta = req_params.delta],
          client_id, Rec(S5, client_id).info.client_type)
      Place(S3) ==
        Then(IF request_count(Rec(S3, client_id)) = 1
             THEN AdjustByType(S3, client_id,
                               Rec(S3, client_id).info.client_type)
             ELSE S3,
             Settle)
      Tag(S2) == Then(AddTag(S2, client_id, req_params, time, request), Place)
      Wake(S1) == Then(Unidle(S1, client_id, time), Tag)
  IN Then(IF client_id \in DOMAIN S.client_map THEN S
          ELSE CreateClient(S, client_id, info_f[client_id]),
          Wake)

-----------------------------------------------------------------------------
(* pop_process_request and reduce_reservation_tags *)

\* reduce_reservation_tags that forgets prev_tag
reduce_reservation_tags_front(S, c) ==
  LET client_info == IF Rec(S, c).info.client_type = "R"
                     THEN S.compensated_client_map[c]
                     ELSE Rec(S, c).info
      dec == 0 - client_info.reservation_inv
      S1 == [S EXCEPT
               !.client_map[c].requests =
                  IF @ = << >> THEN @
                  ELSE [@ EXCEPT ![1].tag.reservation = TagAdd(@, dec)]]
  IN HeapPromote(S1, "resv_heap", c)

reduce_reservation_tags(S, c) ==
  LET client_info == IF Rec(S, c).info.client_type = "R"
                     THEN S.compensated_client_map[c]
                     ELSE Rec(S, c).info
      dec == 0 - client_info.reservation_inv
      S1 == [S EXCEPT
               !.client_map[c].requests =
                  IF @ = << >> THEN @
                  ELSE [@ EXCEPT ![1].tag.reservation = TagAdd(@, dec)],
               !.client_map[c].prev_tag.reservation = TagAdd(@, dec)]
  IN HeapPromote(S1, "resv_heap", c)

\* the deferred tag of the request that becomes head
NextFirstTag(S, c, tag) ==
  IF has_request(Rec(S, c))
  THEN LET Tagged(next_tag) ==
             Then(IF TagAssert(next_tag) THEN S ELSE AssertFail(S),
                  LAMBDA S1 :
                    [S1 EXCEPT !.client_map[c] =
                       update_req_tag([@ EXCEPT !.requests[1].tag = next_tag],
                                      next_tag, S.tick)])
       IN Tagged(RequestTag(tag, client_info_wrapper(S, c),
                            Rec(S, c).cur_delta, Rec(S, c).cur_rho,
                            next_request(Rec(S, c)).tag.arrival,
                            anticipation_timeout))
  ELSE S

\* the re-positioning of the popped client, by the class of the info
\* client_info_wrapper returns for it
PopAdjust(S, c, is_delta) ==
  LET t == client_info_wrapper(S, c).client_type
      S1 == IF t = "R" /\ is_delta THEN reduce_reservation_tags(S, c) ELSE S
  IN HeapAdjust(DemoteEach(S1,
                           IF t = "R" THEN <<"resv_heap", "deltar_heap">>
                           ELSE IF t = "B" THEN <<"burst_heap">>
                           ELSE <<"best_heap">>,
                           c),
                IF t = "R" THEN "r_limit_heap"
                ELSE IF t = "B" THEN "limit_heap" ELSE "best_limit_heap",
                c)

\* pop_process_request(heap, process, now, is_delta); process(client,
\* request) is recorded in S.processed, and what the scheduler's state is
\* when it is called in S.handled
pop_process_request(S, heap, is_delta) ==
  LET c == HeapTop(S, heap)
      request == next_request(Rec(S, c)).request
      tag == next_request(Rec(S, c)).tag
      S1 == [S EXCEPT !.client_map[c] = pop_request(@)]
      Process(S3) == [S3 EXCEPT !.processed = [client |-> c,
                                               request |-> request,
                                               heap |-> heap],
                                !.handled = [client_map |-> S3.client_map,
                                             heaps |-> S3.heaps]]
      Reposition(S2) == Then(PopAdjust(S2, c, is_delta), Process)
  IN Then(NextFirstTag(S1, c, tag), Reposition)

-----------------------------------------------------------------------------
(* Class migration *)

\* delete_from_heaps(client): by the class of the client's current info
RECURSIVE DeleteEach(_, _, _)
DeleteEach(S, hs, c) ==
  IF hs = << >> THEN S
  ELSE DeleteEach(delete_from_heap(S, c, Head(hs)), Tail(hs), c)

delete_from_heaps(S, c) ==
  LET t == Rec(S, c).info.client_type
  IN DeleteEach(S,
                IF t = "R"
                THEN <<"resv_heap", "deltar_heap", "r_limit_heap">>
                ELSE IF t \in {"A", "O"}
                THEN <<"best_heap", "best_limit_heap">>
                ELSE <<"limit_heap", "burst_heap">>,
                c)

DestHeap(t) ==
  IF t = "R" THEN "resv_heap" ELSE IF t = "B" THEN "burst_heap"
  ELSE "best_heap"

\* the inheritance that leaves the head request's tag alone
InheritTags_prev(S, c, new_client_info) ==
  LET dest == DestHeap(new_client_info.client_type)
  IN IF HeapEmpty(S, dest) THEN S
     ELSE [S EXCEPT !.client_map[c].prev_tag = Rec(S, HeapTop(S, dest)).prev_tag]

\* the tags the migrating client inherits from the top of the
\* destination heap
InheritTags(S, c, new_client_info) ==
  LET dest == DestHeap(new_client_info.client_type)
  IN IF HeapEmpty(S, dest) THEN S
     ELSE LET top == Rec(S, HeapTop(S, dest))
          IN [S EXCEPT
                !.client_map[c].requests =
                   IF has_request(Rec(S, c)) /\ has_request(top)
                   THEN [@ EXCEPT ![1].tag = next_request(top).tag]
                   ELSE @,
                !.client_map[c].prev_tag = top.prev_tag]

move_to_another_heap(S, c, new_client_info) ==
  LET Adjust(S3) == AdjustByType(S3, c, new_client_info.client_type)
      Push(S2) == Then(PushByType(S2, c, new_client_info.client_type), Adjust)
      Inherit(S1) == Then(InheritTags(S1, c, new_client_info), Push)
  IN Then(delete_from_heaps(S, c), Inherit)

-----------------------------------------------------------------------------
(* The window roll-over of do_next_request *)

\* the info refresh of one client (temp_client_info != c.second->info)
RefreshInfo(S, c, temp_client_info) ==
  LET old == Rec(S, c).info
      Assign(S1) ==
        LET S2 == [S1 EXCEPT !.client_map[c].info = temp_client_info]
        IN IF temp_client_info.weight # old.weight
           THEN add_total_wgt_and_update_client_res(
                  S2, temp_client_info.weight - old.weight)
           ELSE S2
  IN IF temp_client_info = old THEN S
     ELSE Then(IF temp_client_info.client_type # old.client_type
               THEN move_to_another_heap(S, c, temp_client_info)
               ELSE S,
               Assign)

\* the compensation of one R client; r_compensation is a std::atomic_uint
Compensate(S, c) ==
  LET rec == Rec(S, c)
      res == rec.info.reservation
  IN IF rec.info.client_type = "R"
        /\ rec.r0_counter * TU * 10 >= res * win_size * 8
     THEN LET compensate == TruncDiv(res * win_size - rec.r0_counter * TU,
                                     win_size)
              \* r_compensation is a std::atomic_uint: a negative sum wraps
              \* to added + 2^32, which is never < 0 and is above any
              \* reservation * 0.1
              added == rec.r_compensation + compensate
              r_comp == IF added < 0 \/ added * 10 > res
                        THEN res \div 10 ELSE added
          IN [S EXCEPT
                !.client_map[c].r_compensation = r_comp,
                !.compensated_client_map[c] =
                   ClientInfo(res + r_comp, rec.info.weight, rec.info.limit,
                              "R")]
     ELSE S

ResetCounters(S, c) ==
  [S EXCEPT !.client_map[c] =
     [@ EXCEPT !.b_counter = 0, !.b_break_limit_counter = 0,
               !.deltar_counter = 0, !.deltar_break_limit_counter = 0,
               !.r0_counter = 0, !.r0_break_limit_counter = 0,
               !.be_counter = 0, !.be_break_limit_counter = 0]]

\* the body of the loop over client_map for one client
WindowClient(S, c, info_f) ==
  LET Reset(S2) == ResetCounters(S2, c)
      Comp(S1) == Then(Compensate(S1, c), Reset)
  IN Then(RefreshInfo(S, c, info_f[c]), Comp)

\* for (auto c : client_map): in ascending order of the client id
RECURSIVE WindowLoop(_, _, _)
WindowLoop(S, todo, info_f) ==
  IF todo = {} \/ S.aborted # "no" THEN S
  ELSE LET c == CHOOSE x \in todo : \A y \in todo : x <= y
       IN WindowLoop(WindowClient(S, c, info_f), todo \ {c}, info_f)

\* the window test written with > instead of >=
WindowRoll_late(S, now, info_f) ==
  IF now - S.win_start > win_size
  THEN WindowLoop([S EXCEPT !.win_start = Max(@ + win_size, now),
                            !.rolled = TRUE],
                  DOMAIN S.client_map, info_f)
  ELSE S

\* if (now - win_start >= win_size): m_win is only taken here, under
\* data_mtx, so the try_lock succeeds
WindowRoll(S, now, info_f) ==
  IF now - S.win_start >= win_size
  THEN WindowLoop([S EXCEPT !.win_start = Max(@ + win_size, now),
                            !.rolled = TRUE],
                  DOMAIN S.client_map, info_f)
  ELSE S

-----------------------------------------------------------------------------
(* The dispatch ladder of do_next_request *)

NextReqNone == [type |-> "none", heap_id |-> "-", when_ready |-> 0]
NextReqFuture(t) == [type |-> "future", heap_id |-> "-", when_ready |-> t]
NextReqReturning(h) == [type |-> "returning", heap_id |-> h, when_ready |-> 0]

HeadTag(S, c) == next_request(Rec(S, c)).tag

\* the walk of a limit heap that makes every top with a request ready,
\* whether or not its limit tag has passed
RECURSIVE LimitWalk_early(_, _, _, _)
LimitWalk_early(S, limit_h, dispatch_h, now) ==
  IF S.aborted # "no" \/ HeapEmpty(S, limit_h) THEN S
  ELSE LET c == HeapTop(S, limit_h)
       IN IF has_request(Rec(S, c)) /\ ~HeadTag(S, c).ready
          THEN LET S1 == [S EXCEPT !.client_map[c].requests[1].tag.ready = TRUE]
                   S2 == HeapPromote(S1, dispatch_h, c)
                   S3 == HeapDemote(S2, limit_h, c)
               IN LimitWalk_early(S3, limit_h, dispatch_h, now)
          ELSE S

\* the walk of a limit heap: every top whose limit tag has passed is made
\* ready, promoted in the dispatch heap and demoted in the limit heap
RECURSIVE LimitWalk(_, _, _, _)
LimitWalk(S, limit_h, dispatch_h, now) ==
  IF S.aborted # "no" \/ HeapEmpty(S, limit_h) THEN S
  ELSE LET c == HeapTop(S, limit_h)
       IN IF has_request(Rec(S, c)) /\ ~HeadTag(S, c).ready
             /\ HeadTag(S, c).limit <= now
          THEN LET S1 == [S EXCEPT !.client_map[c].requests[1].tag.ready = TRUE]
                   S2 == HeapPromote(S1, dispatch_h, c)
                   S3 == HeapDemote(S2, limit_h, c)
               IN LimitWalk(S3, limit_h, dispatch_h, now)
          ELSE S

\* rule 1: a reservation is due
ResvDue(S, now) ==
  /\ ~HeapEmpty(S, "resv_heap")
  /\ has_request(Rec(S, HeapTop(S, "resv_heap")))
  /\ HeadTag(S, HeapTop(S, "resv_heap")).reservation <= now

\* the top of a proportion heap is ready with a finite proportion tag
TopReady(S, h) ==
  /\ has_request(Rec(S, HeapTop(S, h)))
  /\ HeadTag(S, HeapTop(S, h)).ready
  /\ HeadTag(S, HeapTop(S, h)).proportion < max_tag

\* rule 3 without the test of b_counter against the resource
BurstDue_unmetered(S) ==
  /\ ~HeapEmpty(S, "burst_heap")
  /\ TopReady(S, "burst_heap")

\* rule 3: burst_heap's top is under its budget and ready
BurstDue(S) ==
  /\ ~HeapEmpty(S, "burst_heap")
  /\ LET c == HeapTop(S, "burst_heap")
     IN UnderBudget(S, Rec(S, c).b_counter, Rec(S, c).resource, 0)
  /\ TopReady(S, "burst_heap")

\* rule 5: deltar_heap's top is under its surplus budget and ready
DeltarDue(S) ==
  /\ ~HeapEmpty(S, "deltar_heap")
  /\ LET c == HeapTop(S, "deltar_heap")
     IN UnderBudget(S, Rec(S, c).deltar_counter, Rec(S, c).resource,
                    Rec(S, c).info.reservation * win_size)
  /\ TopReady(S, "deltar_heap")

\* rule 7
BestDue(S) ==
  /\ ~HeapEmpty(S, "best_heap")
  /\ TopReady(S, "best_heap")

\* rule 8 for a proportion heap, and for resv_heap
BreakDue(S, h) ==
  /\ ~HeapEmpty(S, h)
  /\ has_request(Rec(S, HeapTop(S, h)))
  /\ IF h = "resv_heap"
     THEN HeadTag(S, HeapTop(S, h)).reservation < max_tag
     ELSE HeadTag(S, HeapTop(S, h)).proportion < max_tag

min_not_0_time(current, possible) ==
  IF TimeZero = possible THEN current ELSE Min(current, possible)

\* assert(!next.tag.ready || max_tag == next.tag.proportion)
NextCallAssert(S, h) ==
  \/ HeapEmpty(S, h)
  \/ ~has_request(Rec(S, HeapTop(S, h)))
  \/ ~HeadTag(S, HeapTop(S, h)).ready
  \/ HeadTag(S, HeapTop(S, h)).proportion = max_tag

\* rule 9: the time of the next call
NextCall(S) ==
  LET Has(h) == ~HeapEmpty(S, h) /\ has_request(Rec(S, HeapTop(S, h)))
      n1 == IF Has("resv_heap")
            THEN min_not_0_time(TimeMax,
                                HeadTag(S, HeapTop(S, "resv_heap")).reservation)
            ELSE TimeMax
      n2 == IF Has("r_limit_heap")
            THEN min_not_0_time(n1, HeadTag(S, HeapTop(S, "r_limit_heap")).limit)
            ELSE n1
      n3 == IF Has("limit_heap")
            THEN min_not_0_time(n2, HeadTag(S, HeapTop(S, "limit_heap")).limit)
            ELSE n2
  IN n3

Returning(S, h, counter) ==
  LET c == HeapTop(S, h)
  IN [S EXCEPT !.client_map[c] =
        IF counter = "r0_counter" THEN [@ EXCEPT !.r0_counter = @ + 1]
        ELSE IF counter = "b_counter" THEN [@ EXCEPT !.b_counter = @ + 1]
        ELSE IF counter = "deltar_counter"
             THEN [@ EXCEPT !.deltar_counter = @ + 1]
        ELSE IF counter = "be_counter" THEN [@ EXCEPT !.be_counter = @ + 1]
        ELSE IF counter = "b_break_limit_counter"
             THEN [@ EXCEPT !.b_break_limit_counter = @ + 1]
        ELSE IF counter = "be_break_limit_counter"
             THEN [@ EXCEPT !.be_break_limit_counter = @ + 1]
        ELSE IF counter = "deltar_break_limit_counter"
             THEN [@ EXCEPT !.deltar_break_limit_counter = @ + 1]
        ELSE [@ EXCEPT !.r0_break_limit_counter = @ + 1],
      !.ret = NextReqReturning(h),
      !.rule = counter]

\* rules 8 and 9 with deltar_heap tried before burst_heap
LimitBreakOrFuture_deltar_first(S) ==
  IF S.allow_limit_break /\ BreakDue(S, "deltar_heap")
  THEN Returning(S, "deltar_heap", "deltar_break_limit_counter")
  ELSE IF S.allow_limit_break /\ BreakDue(S, "burst_heap")
  THEN Returning(S, "burst_heap", "b_break_limit_counter")
  ELSE IF S.allow_limit_break /\ BreakDue(S, "best_heap")
  THEN Returning(S, "best_heap", "be_break_limit_counter")
  ELSE IF S.allow_limit_break /\ BreakDue(S, "resv_heap")
  THEN Returning(S, "resv_heap", "r0_break_limit_counter")
  ELSE LET Answer(next_call) ==
             Then(IF NextCallAssert(S, "r_limit_heap")
                     /\ NextCallAssert(S, "limit_heap")
                  THEN S ELSE AssertFail(S),
                  LAMBDA S1 :
                    [S1 EXCEPT !.ret = IF next_call < TimeMax
                                       THEN NextReqFuture(next_call)
                                       ELSE NextReqNone])
       IN Answer(NextCall(S))

\* rules 8 and 9
LimitBreakOrFuture(S) ==
  IF S.allow_limit_break /\ BreakDue(S, "burst_heap")
  THEN Returning(S, "burst_heap", "b_break_limit_counter")
  ELSE IF S.allow_limit_break /\ BreakDue(S, "best_heap")
  THEN Returning(S, "best_heap", "be_break_limit_counter")
  ELSE IF S.allow_limit_break /\ BreakDue(S, "deltar_heap")
  THEN Returning(S, "deltar_heap", "deltar_break_limit_counter")
  ELSE IF S.allow_limit_break /\ BreakDue(S, "resv_heap")
  THEN Returning(S, "resv_heap", "r0_break_limit_counter")
  ELSE LET Answer(next_call) ==
             Then(IF NextCallAssert(S, "r_limit_heap")
                     /\ NextCallAssert(S, "limit_heap")
                  THEN S ELSE AssertFail(S),
                  LAMBDA S1 :
                    [S1 EXCEPT !.ret = IF next_call < TimeMax
                                       THEN NextReqFuture(next_call)
                                       ELSE NextReqNone])
       IN Answer(NextCall(S))

\* rules 4 to 7
DeltarOrBest(S, now) ==
  LET Best(S3) ==
        IF BestDue(S3) THEN Returning(S3, "best_heap", "be_counter")
        ELSE LimitBreakOrFuture(S3)
      Deltar(S2) ==
        IF DeltarDue(S2) THEN Returning(S2, "deltar_heap", "deltar_counter")
        ELSE Then(LimitWalk(S2, "best_limit_heap", "best_heap", now), Best)
      Read(S1) ==
        Then(IF HeapEmpty(S1, "deltar_heap") THEN S1
             ELSE ReadResource(S1, HeapTop(S1, "deltar_heap")),
             Deltar)
  IN Then(LimitWalk(S, "r_limit_heap", "deltar_heap", now), Read)

\* rules 1 to 3
Ladder(S, now) ==
  LET Burst(S2) ==
        IF BurstDue(S2) THEN Returning(S2, "burst_heap", "b_counter")
        ELSE DeltarOrBest(S2, now)
      Read(S1) ==
        Then(IF HeapEmpty(S1, "burst_heap") THEN S1
             ELSE ReadResource(S1, HeapTop(S1, "burst_heap")),
             Burst)
  IN IF ResvDue(S, now) THEN Returning(S, "resv_heap", "r0_counter")
     ELSE Then(LimitWalk(S, "limit_heap", "burst_heap", now), Read)

\* do_next_request doing the window maintenance after the ladder has found
\* nothing to return, instead of before the ladder
do_next_request_roll_last(S0, now, info_f) ==
  LET S == [S0 EXCEPT !.ret = NextReqNone, !.rule = "-", !.rolled = FALSE,
                      !.asked = TRUE]
      Roll(S1) == IF S1.ret.type = "returning" THEN S1
                  ELSE WindowRoll(S1, now, info_f)
  IN IF HeapEmpty(S, "resv_heap") /\ HeapEmpty(S, "burst_heap")
        /\ HeapEmpty(S, "best_heap")
     THEN S
     ELSE Then(Ladder(S, now), Roll)

\* do_next_request(now); the result is left in S.ret
do_next_request(S0, now, info_f) ==
  LET S == [S0 EXCEPT !.ret = NextReqNone, !.rule = "-", !.rolled = FALSE,
                      !.asked = TRUE]
  IN IF HeapEmpty(S, "resv_heap") /\ HeapEmpty(S, "burst_heap")
        /\ HeapEmpty(S, "best_heap")
     THEN S
     ELSE Then(WindowRoll(S, now, info_f), LAMBDA S1 : Ladder(S1, now))

-----------------------------------------------------------------------------
(* The janitor, remove_by_client, update_client_info(s) *)

\* the mark points kept and the erase point: the while loop that pops the
\* points older than erase_age
RECURSIVE ErasePoint(_, _, _)
ErasePoint(points, now, erase_point) ==
  IF Head(points).time <= now - erase_age
  THEN ErasePoint(Tail(points), now, Head(points).tick)
  ELSE [points |-> points, erase_point |-> erase_point]

RECURSIVE IdlePoint(_, _, _)
IdlePoint(points, now, idle_point) ==
  IF points # << >> /\ Head(points).time <= now - idle_age
  THEN IdlePoint(Tail(points), now, Head(points).tick)
  ELSE idle_point

\* the erase branch for one client: after client_map.erase(i2) the loop
\* still reads i2->first and i2->second->info
EraseClient(S, c) ==
  LET info == Rec(S, c).info
      Weigh(S2) == IF info.weight = 0 THEN S2
                   ELSE IF info.client_type # "O"
                   THEN add_total_wgt_and_update_client_res(
                          S2, 0 - info.weight)
                   ELSE S2
      Erase(S1) == Then(UB([S1 EXCEPT !.client_map =
                              [x \in DOMAIN @ \ {c} |-> @[x]],
                            !.erased = @ \cup {c}]),
                        Weigh)
  IN Then(delete_from_heaps(S, c), Erase)

RECURSIVE CleanLoop(_, _, _, _)
CleanLoop(S, todo, erase_point, idle_point) ==
  IF todo = {} \/ S.aborted # "no" THEN S
  ELSE LET c == CHOOSE x \in todo : \A y \in todo : x <= y
           S1 == IF erase_point # 0 /\ Rec(S, c).last_tick <= erase_point
                 THEN EraseClient(S, c)
                 ELSE IF idle_point # 0 /\ Rec(S, c).last_tick <= idle_point
                 THEN [S EXCEPT !.client_map[c].idle = TRUE]
                 ELSE S
       IN CleanLoop(S1, todo \ {c}, erase_point, idle_point)

do_clean(S, now) ==
  LET marked == Append(S.clean_mark_points, [time |-> now, tick |-> S.tick])
      e == ErasePoint(marked, now, 0)
      idle_point == IdlePoint(e.points, now, 0)
      S1 == [S EXCEPT !.clean_mark_points = e.points]
  IN IF e.erase_point > 0 \/ idle_point > 0
     THEN CleanLoop(S1, DOMAIN S.client_map, e.erase_point, idle_point)
     ELSE S1

remove_by_client(S, client) ==
  IF client \notin DOMAIN S.client_map THEN S
  ELSE LET t == Rec(S, client).info.client_type
           S1 == [S EXCEPT !.client_map[client].requests = << >>]
       IN Then(AdjustByType(S1, client, t),
               LAMBDA S2 :
                 IF t # "O"
                 THEN add_total_wgt_and_update_client_res(
                        S2, 0 - Rec(S, client).info.weight)
                 ELSE S2)

update_client_info(S, client_id, info_f) ==
  IF client_id \notin DOMAIN S.client_map THEN S
  ELSE LET old_wgt == Rec(S, client_id).info.weight
           S1 == [S EXCEPT !.client_map[client_id].info = info_f[client_id]]
       IN IF info_f[client_id].client_type # "O"
          THEN add_total_wgt_and_update_client_res(
                 S1, info_f[client_id].weight - old_wgt)
          ELSE S1

update_client_infos(S, info_f) ==
  [S EXCEPT !.client_map = [c \in DOMAIN S.client_map |->
                              [S.client_map[c] EXCEPT !.info = info_f[c]]]]

-----------------------------------------------------------------------------
(* The facades *)

\* every dispatch reported as a priority-phase one
PhaseOf_priority(heap_id) == "priority"

PhaseOf(heap_id) ==
  IF heap_id = "resv_heap" THEN "reservation" ELSE "priority"

\* the switch on next.heap_id of pull_request and of submit_request
PopByHeapId(S) ==
  pop_process_request(S, S.ret.heap_id, S.ret.heap_id = "deltar_heap")

\* PullPriorityQueue::pull_request(now); the PullReq is S.ret, S.processed
\* and S.phase
pull_request(S, now, info_f) ==
  LET Pop(S1) ==
        IF S1.ret.type # "returning" THEN S1
        ELSE [PopByHeapId(S1) EXCEPT !.phase = PhaseOf(S1.ret.heap_id)]
  IN Then(do_next_request(S, now, info_f), Pop)

\* sched_at that records the time whatever time is recorded already
sched_at_overwrite(S, when) ==
  IF S.finishing THEN S
  ELSE [S EXCEPT !.sched_ahead_when = when]

\* PushPriorityQueue::sched_at(when)
sched_at(S, when) ==
  IF S.finishing THEN S
  ELSE IF TimeZero = S.sched_ahead_when \/ when < S.sched_ahead_when
  THEN [S EXCEPT !.sched_ahead_when = when]
  ELSE S

\* schedule_request with can_handle_f consulted after do_next_request
schedule_request_ask_late(S, now, info_f, can_handle) ==
  LET Submit(S1) ==
        IF ~can_handle THEN [S1 EXCEPT !.ret = NextReqNone]
        ELSE IF S1.ret.type = "none" THEN S1
        ELSE IF S1.ret.type = "future" THEN sched_at(S1, S1.ret.when_ready)
        ELSE [PopByHeapId(S1) EXCEPT !.phase = PhaseOf(S1.ret.heap_id)]
  IN Then(do_next_request(S, now, info_f), Submit)

\* PushPriorityQueue::next_request(now) and schedule_request(): handle_f
\* (client, request, phase) is recorded in S.processed and S.phase
schedule_request(S, now, info_f, can_handle) ==
  LET Submit(S1) ==
        IF S1.ret.type = "none" THEN S1
        ELSE IF S1.ret.type = "future" THEN sched_at(S1, S1.ret.when_ready)
        ELSE [PopByHeapId(S1) EXCEPT !.phase = PhaseOf(S1.ret.heap_id)]
  IN IF ~can_handle THEN [S EXCEPT !.ret = NextReqNone, !.rule = "-",
                                   !.rolled = FALSE]
     ELSE Then(do_next_request(S, now, info_f), Submit)

\* PushPriorityQueue::add_request: do_add_request, then schedule_request
push_add_request(S, request, client_id, req_params, now, info_f, can_handle) ==
  Then(do_add_request(S, request, client_id, req_params, now, info_f),
       LAMBDA S1 : schedule_request(S1, now, info_f, can_handle))

-----------------------------------------------------------------------------
(* The client-info callback: the ClientInfo values it may return *)

InfoR == ClientInfo(10, 1, 0, "R")
InfoRlow == ClientInfo(5, 1, 0, "R")
InfoB == ClientInfo(0, 1, 10, "B")
InfoB2 == ClientInfo(0, 2, 10, "B")
InfoA == ClientInfo(0, 1, 0, "A")
InfoNoexist == ClientInfo(0, 0, 0, "O")

\* what the callback returns at construction, per client
InitInfos == {<<InfoR, InfoB>>, <<InfoB, InfoA>>, <<InfoR, InfoA>>}

\* the changes an operator makes to a client's ClientInfo: a lower
\* reservation or another class for R, another weight, another class or no
\* service for B, a limit for A
InfoMenu(i) ==
  IF i.client_type = "R" THEN {InfoRlow, InfoB}
  ELSE IF i.client_type = "B" THEN {InfoB2, InfoR, InfoNoexist}
  ELSE {InfoB}

\* the (rho, delta) a request may carry
ReqParamsSet == {[rho |-> 1, delta |-> 1]}

-----------------------------------------------------------------------------
(* State *)

VARIABLES
  client_map,              \* client id -> ClientRec
  compensated_client_map,  \* client id -> the scheduler-owned ClientInfo
  heaps,                   \* heap name -> the heap's vector of client ids
  tick,
  total_wgt,
  win_start,
  clean_mark_points,
  sched_ahead_when,
  allow_limit_break,
  facade,                  \* "pull" or "push": the class of the queue
  aborted,                 \* "no", or how the process died
  assert_failed,           \* an assert() has been false
  now,                     \* the clock (get_time())
  info_f,                  \* what client_info_f returns for each client
  last_clean,              \* when do_clean last ran
  steps, admin,           \* exploration counters
  limits,                  \* the behaviour's profile
  ahead,                   \* the threads of a push queue: run_sched_ahead,
                           \* its mutexes, the destructor
  quiet,                   \* no call of the queue since the clock moved
  submitted,               \* per client: payloads accepted and not removed
  dispatched,              \* per client: payloads handed out, in order
  last                     \* the last call and what it returned

vars == <<client_map, compensated_client_map, heaps, tick, total_wgt,
          win_start, clean_mark_points, sched_ahead_when, allow_limit_break,
          facade, aborted, assert_failed, now, info_f, last_clean, steps,
          admin, limits, ahead, quiet, submitted, dispatched, last>>

NoProcessed == [client |-> 0, request |-> 0, heap |-> "-"]

\* no callback has been called
NoHandled == [client_map |-> << >>, heaps |-> << >>]

\* the calls whose outcome is recorded in last
TracedOps == {"add_request", "pull_request", "push_add_request",
              "request_completed", "run_sched_ahead"}

NoLast == [op |-> "-", client |-> 0, now |-> 0, type |-> "none",
           when_ready |-> 0, heap_id |-> "-", rule |-> "-",
           rolled |-> FALSE, asked |-> FALSE, win_before |-> 0,
           phase |-> "-", processed |-> NoProcessed]

\* the scheduler's state as a record, with the step's outcome selector
State(ub) ==
  [client_map |-> client_map,
   compensated_client_map |-> compensated_client_map,
   heaps |-> heaps,
   tick |-> tick,
   total_wgt |-> total_wgt,
   win_start |-> win_start,
   clean_mark_points |-> clean_mark_points,
   sched_ahead_when |-> sched_ahead_when,
   finishing |-> ahead.finishing,
   allow_limit_break |-> allow_limit_break,
   system_capacity |-> limits.capacity,
   aborted |-> aborted,
   assert_failed |-> assert_failed,
   ub |-> ub,
   ub_hit |-> FALSE,
   ret |-> NextReqNone,
   rule |-> "-",
   rolled |-> FALSE,
   asked |-> FALSE,
   processed |-> NoProcessed,
   handled |-> NoHandled,
   phase |-> "-",
   erased |-> {}]

\* the outcomes of a handler F: one, or two when the step is build-dependent
Outcomes(F(_)) ==
  LET r1 == F(State(1))
  IN IF r1.ub_hit THEN {r1, F(State(2))} ELSE {r1}

LastOf(op, c, S) ==
  IF op \notin TracedOps THEN NoLast ELSE
  [op |-> op, client |-> c, now |-> now,
   type |-> S.ret.type, when_ready |-> S.ret.when_ready,
   heap_id |-> S.ret.heap_id, rule |-> S.rule, rolled |-> S.rolled,
   asked |-> S.asked, win_before |-> win_start,
   phase |-> S.phase, processed |-> S.processed]

\* the ghost queues after a step: a dispatched payload is appended to
\* dispatched, a removed client's undelivered payloads leave submitted
Ghost(S, added, removed) ==
  /\ submitted' = [c \in DOMAIN submitted |->
        IF c \in removed THEN dispatched[c]
        ELSE IF c \in added THEN Append(submitted[c], S.tick)
        ELSE submitted[c]]
  /\ dispatched' = [c \in DOMAIN dispatched |->
        IF c = S.processed.client /\ c \notin removed
        THEN Append(dispatched[c], S.processed.request)
        ELSE dispatched[c]]

\* the step's effect on the program state; a dead process keeps the state
\* it died in
Install(S, op, c, added, removed) ==
  /\ quiet' = (op = "do_clean")
  /\ IF S.aborted # "no"
     THEN /\ aborted' = S.aborted
          /\ assert_failed' = S.assert_failed
          /\ UNCHANGED <<client_map, compensated_client_map, heaps, tick,
                         total_wgt, win_start, clean_mark_points,
                         sched_ahead_when, submitted, dispatched, last>>
     ELSE /\ client_map' = S.client_map
          /\ compensated_client_map' = S.compensated_client_map
          /\ heaps' = S.heaps
          /\ tick' = S.tick
          /\ total_wgt' = S.total_wgt
          /\ win_start' = S.win_start
          /\ clean_mark_points' = S.clean_mark_points
          /\ sched_ahead_when' = S.sched_ahead_when
          /\ aborted' = S.aborted
          /\ assert_failed' = S.assert_failed
          /\ last' = LastOf(op, c, S)
          /\ Ghost(S, added, removed)

\* the threads when the constructor returns: run_sched_ahead has been
\* started and the destructor has not been called
AheadStart ==
  [pc |-> "start", dtor |-> "idle", finishing |-> FALSE,
   data_mtx |-> "free", when |-> TimeZero, deadline |-> TimeZero,
   pending |-> {}, due |-> {}, calls |-> 0]

Init ==
  /\ client_map = << >>
  /\ compensated_client_map = << >>
  /\ heaps = [h \in HeapNames |-> << >>]
  /\ tick = 0
  /\ total_wgt = 0
  /\ win_start = 0
  /\ clean_mark_points = << >>
  /\ sched_ahead_when = TimeZero
  /\ allow_limit_break \in BOOLEAN
  /\ facade \in {"pull", "push"}
  /\ aborted = "no"
  /\ assert_failed = FALSE
  /\ now = Epoch
  /\ info_f \in InitInfos
  /\ last_clean = Epoch
  /\ steps = 0
  /\ admin = 0
  /\ limits \in Profiles
  /\ ahead = AheadStart
  /\ quiet = TRUE
  /\ submitted = [c \in Clients |-> << >>]
  /\ dispatched = [c \in Clients |-> << >>]
  /\ last = NoLast

-----------------------------------------------------------------------------
(* Actions *)

\* the cleaning job is periodic: it runs when check_time has passed since
\* its last run, before the other threads get to run at that instant
CleanDue == now - last_clean >= check_time

Running == aborted = "no" /\ ~CleanDue

\* PullPriorityQueue::add_request(request, client_id, req_params, time)
AddRequest(c, rp) ==
  /\ Running /\ facade = "pull" /\ tick < limits.ticks
  /\ \E S \in Outcomes(LAMBDA S0 : do_add_request(S0, tick + 1, c, rp, now, info_f)) :
        Install(S, "add_request", c, {c}, {})
  /\ UNCHANGED <<allow_limit_break, facade, limits, ahead, now, info_f, last_clean, steps,
                 admin>>

\* PullPriorityQueue::pull_request(now)
PullRequest ==
  /\ Running /\ facade = "pull"
  /\ \E S \in Outcomes(LAMBDA S0 : pull_request(S0, now, info_f)) :
        Install(S, "pull_request", 0, {}, {})
  /\ UNCHANGED <<allow_limit_break, facade, limits, ahead, now, info_f, last_clean, steps,
                 admin>>

\* PushPriorityQueue::add_request: do_add_request, then schedule_request
PushAddRequest(c, rp, can_handle) ==
  /\ Running /\ facade = "push" /\ tick < limits.ticks
  /\ \E S \in Outcomes(LAMBDA S0 :
          push_add_request(S0, tick + 1, c, rp, now, info_f, can_handle)) :
        Install(S, "push_add_request", c, {c}, {})
  /\ UNCHANGED <<allow_limit_break, facade, limits, ahead, now, info_f, last_clean, steps,
                 admin>>

\* PushPriorityQueue::request_completed
RequestCompleted(can_handle) ==
  /\ Running /\ facade = "push"
  /\ \E S \in Outcomes(LAMBDA S0 : schedule_request(S0, now, info_f, can_handle)) :
        Install(S, "request_completed", 0, {}, {})
  /\ UNCHANGED <<allow_limit_break, facade, limits, ahead, now, info_f, last_clean, steps,
                 admin>>

\* run_sched_ahead once the recorded time has come
SchedAhead(can_handle) ==
  /\ Running /\ facade = "push"
  /\ sched_ahead_when # TimeZero /\ now >= sched_ahead_when
  /\ \E S \in Outcomes(LAMBDA S0 :
          schedule_request([S0 EXCEPT !.sched_ahead_when = TimeZero],
                           now, info_f, can_handle)) :
        Install(S, "run_sched_ahead", 0, {}, {})
  /\ UNCHANGED <<allow_limit_break, facade, limits, ahead, now, info_f, last_clean, steps,
                 admin>>

RemoveByClient(c) ==
  /\ Running /\ admin < limits.admin
  /\ c \in DOMAIN client_map
  /\ admin' = admin + 1
  /\ \E S \in Outcomes(LAMBDA S0 : remove_by_client(S0, c)) :
        Install(S, "remove_by_client", c, {}, {c})
  /\ UNCHANGED <<allow_limit_break, facade, limits, ahead, now, info_f, last_clean, steps>>

UpdateClientInfo(c) ==
  /\ Running
  /\ c \in DOMAIN client_map /\ client_map[c].info # info_f[c]
  /\ \E S \in Outcomes(LAMBDA S0 : update_client_info(S0, c, info_f)) :
        Install(S, "update_client_info", c, {}, {})
  /\ UNCHANGED <<allow_limit_break, facade, limits, ahead, now, info_f, last_clean, steps,
                 admin>>

UpdateClientInfos ==
  /\ Running
  /\ \E c \in DOMAIN client_map : client_map[c].info # info_f[c]
  /\ \E S \in Outcomes(LAMBDA S0 : update_client_infos(S0, info_f)) :
        Install(S, "update_client_infos", 0, {}, {})
  /\ UNCHANGED <<allow_limit_break, facade, limits, ahead, now, info_f, last_clean, steps,
                 admin>>

\* the cleaning job, every check_time
DoClean ==
  /\ aborted = "no" /\ CleanDue
  /\ last_clean' = now
  /\ \E S \in Outcomes(LAMBDA S0 : do_clean(S0, now)) :
        Install(S, "do_clean", 0, {}, S.erased)
  /\ UNCHANGED <<allow_limit_break, facade, limits, ahead, now, info_f, steps, admin>>

\* time passes
AdvanceTime ==
  /\ Running /\ steps < limits.steps
  /\ steps' = steps + 1
  /\ now' = now + win_size
  /\ UNCHANGED <<client_map, compensated_client_map, heaps, tick, total_wgt,
                 win_start, clean_mark_points, sched_ahead_when,
                 allow_limit_break, facade, limits, ahead, aborted, assert_failed, info_f,
                 last_clean, admin, quiet, submitted, dispatched, last>>

\* the owner of the ClientInfo values changes what the callback returns
ChangeInfo(c, i) ==
  /\ Running /\ admin < limits.admin
  /\ i # info_f[c]
  /\ quiet
  /\ UNCHANGED quiet
  /\ admin' = admin + 1
  /\ info_f' = [info_f EXCEPT ![c] = i]
  /\ UNCHANGED <<client_map, compensated_client_map, heaps, tick, total_wgt,
                 win_start, clean_mark_points, sched_ahead_when,
                 allow_limit_break, facade, limits, ahead, aborted, assert_failed, now,
                 last_clean, steps, submitted, dispatched, last>>

Next ==
  \/ \E c \in Clients, rp \in ReqParamsSet : AddRequest(c, rp)
  \/ PullRequest
  \/ \E c \in Clients, rp \in ReqParamsSet, can_handle \in BOOLEAN :
        PushAddRequest(c, rp, can_handle)
  \/ \E can_handle \in BOOLEAN : RequestCompleted(can_handle)
  \/ \E can_handle \in BOOLEAN : SchedAhead(can_handle)
  \/ \E c \in Clients : RemoveByClient(c)
  \/ \E c \in Clients : UpdateClientInfo(c)
  \/ UpdateClientInfos
  \/ DoClean
  \/ AdvanceTime
  \/ \E c \in Clients : \E i \in InfoMenu(info_f[c]) : ChangeInfo(c, i)

Spec == Init /\ [][Next]_vars

-----------------------------------------------------------------------------
(* Properties *)

\* the payloads queued for a client, head first
QueuedIn(cm, c) ==
  IF c \in DOMAIN cm
  THEN [i \in 1 .. Len(cm[c].requests) |-> cm[c].requests[i].request]
  ELSE << >>

Queued(c) == QueuedIn(client_map, c)

\* how many entries of heap h are the client c
Entries(h, c) == Cardinality({i \in 1 .. Len(heaps[h]) : heaps[h][i] = c})

\* C1: for every client the payloads dispatched so far, followed by the
\* payloads still queued, are the payloads add_request accepted for it, in
\* the order of acceptance: nothing reordered, duplicated or skipped.
C1_FifoPerClient ==
  \A c \in Clients : submitted[c] = dispatched[c] \o Queued(c)

\* two requests of one client have been dispatched while a third one, added
\* later, is still queued
C1_Witness ==
  \E c \in Clients :
     /\ Len(dispatched[c]) = 2
     /\ Len(Queued(c)) = 1
     /\ dispatched[c][1] < dispatched[c][2]
     /\ dispatched[c][2] < Queued(c)[1]

RECURSIVE SumWeights(_)
SumWeights(cs) ==
  IF cs = {} THEN 0
  ELSE LET c == CHOOSE x \in cs : TRUE
       IN (IF client_map[c].info.client_type # "O"
           THEN client_map[c].info.weight ELSE 0) + SumWeights(cs \ {c})

\* C2: in every reachable state total_wgt is the sum of info.weight over
\* the clients in client_map whose class is not O.
C2_TotalWgt == total_wgt = SumWeights(DOMAIN client_map)

\* the heaps of a class each hold the client once, and the top of each
\* precedes or equals every other member under the heap's comparator
OnceInOwnHeaps(c) ==
  \A h \in HeapsOfType(client_map[c].info.client_type) : Entries(h, c) = 1

TopFirst(h) ==
  \A i \in 1 .. Len(heaps[h]) :
     ~HeapCompare(h, client_map[heaps[h][i]], client_map[heaps[h][1]])

\* C3: after add_request returns, the client it was called for has exactly
\* one entry in each heap of its class, and each of those heaps has a top
\* that precedes or equals every other member.
C3_AfterAdd ==
  (last.op \in {"add_request", "push_add_request"} /\ aborted = "no")
    => /\ OnceInOwnHeaps(last.client)
       /\ \A h \in HeapsOfType(client_map[last.client].info.client_type) :
             TopFirst(h)

\* C4: in every reachable state each client of client_map is a member of
\* exactly the heaps of its current class, once, and of no other heap.
C4_HeapsOfClass ==
  \A c \in DOMAIN client_map : \A h \in HeapNames :
     Entries(h, c) = IF h \in HeapsOfType(client_map[c].info.client_type)
                     THEN 1 ELSE 0

\* C5: in every reachable state every client has
\* 0 <= r_compensation <= 0.1 * info.reservation.
C5_CompensationRange ==
  \A c \in DOMAIN client_map :
     /\ 0 <= client_map[c].r_compensation
     /\ client_map[c].r_compensation * 10 <= client_map[c].info.reservation


\* the last step called do_next_request and returned
Asked == last.asked /\ aborted = "no"

NoClient ==
  heaps.resv_heap = << >> /\ heaps.burst_heap = << >>
    /\ heaps.best_heap = << >>

WindowKept ==
  /\ win_start <= last.now
  /\ last.now < win_start + win_size
  /\ last.rolled <=> (last.now - last.win_before >= win_size)

\* C6: after every next_request(now) call returns,
\* win_start <= now < win_start + win_size, and the window maintenance was
\* performed by this call exactly when its now had now - win_start >=
\* win_size (so once per boundary, by the first call that crosses it).
C6_Window == Asked => WindowKept

\* C6 as amended: the same, for a call made while the queue knows a client
\* (resv_heap, burst_heap and best_heap are not all empty).
C6_WindowWithClients == (Asked /\ ~NoClient) => WindowKept

\* a call that crossed a boundary later than the first one and did the
\* maintenance
C6_Witness ==
  Asked /\ ~NoClient /\ last.rolled /\ last.win_before >= Epoch

\* counter < budget, for a resource computed from weight and total_wgt
BelowBudget(counter, resource, reserved_num) ==
  /\ resource.init
  /\ \/ /\ resource.total_wgt > 0
        /\ counter * TU * resource.total_wgt
             < limits.capacity * resource.weight * win_size
               - reserved_num * resource.total_wgt
     \/ resource.total_wgt = 0 /\ resource.weight > 0

\* counter <= budget, for a resource computed from weight and total_wgt
WithinBudget(counter, resource, reserved_num) ==
  (resource.init /\ resource.total_wgt > 0)
    => counter * TU * resource.total_wgt
         <= Max(limits.capacity * resource.weight * win_size
                  - reserved_num * resource.total_wgt, 0)

\* C7 as stated: with allow_limit_break = false, after a burst dispatch the
\* number of burst dispatches of that client in the window is at most its
\* resource budget, and after a deltar dispatch the number of deltar
\* dispatches of that client is at most max(resource - reservation *
\* win_size, 0).
C7_CountWithinBudget ==
  (~allow_limit_break /\ Asked /\ last.type = "returning")
    => LET rec == client_map[last.processed.client]
       IN /\ last.heap_id = "burst_heap"
               => WithinBudget(rec.b_counter, rec.resource, 0)
          /\ last.heap_id = "deltar_heap"
               => WithinBudget(rec.deltar_counter, rec.resource,
                               rec.info.reservation * win_size)

\* C7 as amended: with allow_limit_break = false, a burst dispatch is of a client whose
\* b_counter was below its resource budget, and a deltar dispatch is of a
\* client whose deltar_counter was below max(resource - reservation *
\* win_size, 0): the per-window count never passes the budget.
C7_Budget ==
  (~allow_limit_break /\ Asked /\ last.type = "returning")
    => LET rec == client_map[last.processed.client]
       IN /\ last.heap_id = "burst_heap"
               => BelowBudget(rec.b_counter - 1, rec.resource, 0)
          /\ last.heap_id = "deltar_heap"
               => BelowBudget(rec.deltar_counter - 1, rec.resource,
                              rec.info.reservation * win_size)

\* a burst dispatch that used up the budget of its client, which has a
\* request left
C7_Witness ==
  /\ ~allow_limit_break /\ Asked /\ last.type = "returning"
  /\ last.heap_id = "burst_heap"
  /\ LET rec == client_map[last.processed.client]
     IN /\ has_request(rec)
        /\ ~BelowBudget(rec.b_counter, rec.resource, 0)

\* the answers of a second pull_request(now) made right now, in either
\* build
PullAgain ==
  {S \in {pull_request(State(1), now, info_f),
          pull_request(State(2), now, info_f)} : S.aborted = "no"}

JustPulled ==
  last.op = "pull_request" /\ last.now = now /\ ~quiet /\ aborted = "no"

\* C8: if pull_request(now) returned None or Future(t), the same call made
\* again at once returns the same variant, with the same t.
C8_PullIdempotent ==
  (JustPulled /\ last.type \in {"none", "future"})
    => \A S \in PullAgain :
          S.ret.type = last.type /\ S.ret.when_ready = last.when_ready

\* a pull_request that returned Future while a request is queued
C8_Witness ==
  /\ JustPulled /\ last.type = "future"
  /\ \E c \in DOMAIN client_map : has_request(client_map[c])
  /\ PullAgain # {}

\* C9: a pull_request that returns Returning removes exactly the head of the
\* queue of one client, which is the payload it returns, and leaves the
\* other queues as they were; one that returns None or Future leaves every
\* queue as it was.
C9_PullFrame ==
  [][(PullRequest /\ aborted' = "no")
       => IF last'.type = "returning"
          THEN LET c == last'.processed.client
               IN /\ c \in DOMAIN client_map
                  /\ Queued(c) # << >>
                  /\ last'.processed.request = Head(Queued(c))
                  /\ QueuedIn(client_map', c) = Tail(Queued(c))
                  /\ \A d \in Clients \ {c} :
                        QueuedIn(client_map', d) = Queued(d)
          ELSE \A d \in Clients : QueuedIn(client_map', d) = Queued(d)]_vars

\* a pull_request returned the head of a queue of two while another client
\* has a request queued
C9_Witness ==
  /\ last.op = "pull_request" /\ last.type = "returning" /\ aborted = "no"
  /\ Len(Queued(last.processed.client)) = 1
  /\ \E d \in Clients \ {last.processed.client} : Queued(d) # << >>

\* C10: in both facades a dispatched request is reported with phase
\* reservation exactly when it was popped from resv_heap, and with phase
\* priority when popped from deltar_heap, burst_heap or best_heap.
C10_Phase ==
  (Asked /\ last.type = "returning")
    => /\ last.phase = "reservation" <=> last.processed.heap = "resv_heap"
       /\ last.processed.heap \in {"deltar_heap", "burst_heap", "best_heap"}
            => last.phase = "priority"
       /\ last.processed.heap
            \in {"resv_heap", "deltar_heap", "burst_heap", "best_heap"}

\* the push facade handed out a request popped from deltar_heap
C10_Witness ==
  /\ Asked /\ last.type = "returning" /\ facade = "push"
  /\ last.processed.heap = "deltar_heap" /\ last.phase = "priority"

-----------------------------------------------------------------------------
(* The ladder of do_next_request, seen from the state a call is made in *)

\* the state the ladder of a next_request(now) made now starts from: the
\* window maintenance is done, unless the call returns at once
BeforeLadder(ub) ==
  IF heaps.resv_heap = << >> /\ heaps.burst_heap = << >>
       /\ heaps.best_heap = << >>
  THEN State(ub)
  ELSE WindowRoll(State(ub), now, info_f)

\* the state a next_request(now) made now returns in
AfterCall(ub) == do_next_request(State(ub), now, info_f)

\* the R clients whose head request has a reservation tag that is due
DueR(P) ==
  {c \in DOMAIN P.client_map :
     /\ P.client_map[c].info.client_type = "R"
     /\ has_request(P.client_map[c])
     /\ next_request(P.client_map[c]).tag.reservation <= now}

\* between P and R the named counter of c went up by one, and no other
\* client's counter of that name changed
CountedOnce(P, R, c, counter) ==
  /\ R.client_map[c][counter] = P.client_map[c][counter] + 1
  /\ \A d \in DOMAIN P.client_map \ {c} :
        R.client_map[d][counter] = P.client_map[d][counter]

\* C11: whenever some R client's head request has a reservation tag <= now,
\* next_request(now) returns Returning(reservation), whatever the B, A and
\* O clients are; the client dispatched is an R client with the smallest
\* head reservation tag, and its r0_counter goes up by exactly one.
C11_ReservationFirst ==
  aborted = "no" =>
    \A ub \in {1, 2} :
       LET P == BeforeLadder(ub)
           R == AfterCall(ub)
       IN (P.aborted = "no" /\ DueR(P) # {})
            => /\ R.aborted = "no"
               /\ R.ret = NextReqReturning("resv_heap")
               /\ \E c \in DueR(P) :
                     /\ \A d \in DueR(P) :
                           next_request(P.client_map[c]).tag.reservation
                             <= next_request(P.client_map[d]).tag.reservation
                     /\ CountedOnce(P, R, c, "r0_counter")

PriorityHeaps == {"burst_heap", "deltar_heap", "best_heap"}

BreakCounters ==
  {"b_break_limit_counter", "be_break_limit_counter",
   "deltar_break_limit_counter", "r0_break_limit_counter"}

\* C12: with allow_limit_break = false, a request that next_request(now)
\* returns from burst_heap, deltar_heap or best_heap is ready and has a
\* limit tag <= now, and every break-limit counter of every client is 0 in
\* every reachable state.
C12_NoLimitBreak ==
  ~allow_limit_break =>
    /\ \A c \in DOMAIN client_map : \A k \in BreakCounters :
          client_map[c][k] = 0
    /\ aborted = "no" =>
         \A ub \in {1, 2} :
            LET R == AfterCall(ub)
            IN (R.aborted = "no" /\ R.ret.type = "returning"
                  /\ R.ret.heap_id \in PriorityHeaps)
                 => /\ HeadTag(R, HeapTop(R, R.ret.heap_id)).ready
                    /\ HeadTag(R, HeapTop(R, R.ret.heap_id)).limit <= now

\* limit breaking is off and a next_request(now) made now returns, from
\* burst_heap, a request whose limit tag is a proper tag that has just
\* come due, while the client has a request that is not yet due behind it
C12_Witness ==
  /\ ~allow_limit_break /\ aborted = "no"
  /\ LET R == AfterCall(1)
     IN /\ R.aborted = "no" /\ R.ret = NextReqReturning("burst_heap")
        /\ LET rec == Rec(R, HeapTop(R, "burst_heap"))
           IN /\ next_request(rec).tag.limit > min_tag
              /\ request_count(rec) > 1

RegularCounters == {"r0_counter", "b_counter", "deltar_counter", "be_counter"}

\* the heaps limit breaking tries, in order, with the counter of each
BreakOrder ==
  <<[heap |-> "burst_heap", counter |-> "b_break_limit_counter"],
    [heap |-> "best_heap", counter |-> "be_break_limit_counter"],
    [heap |-> "deltar_heap", counter |-> "deltar_break_limit_counter"],
    [heap |-> "resv_heap", counter |-> "r0_break_limit_counter"]>>

\* the top of heap h has a request with a finite tag (the reservation tag
\* for resv_heap, the proportion tag for the others)
FiniteTop(R, h) ==
  /\ R.heaps[h] # << >>
  /\ R.client_map[R.heaps[h][1]].requests # << >>
  /\ LET tag == R.client_map[R.heaps[h][1]].requests[1].tag
     IN IF h = "resv_heap" THEN tag.reservation < max_tag
        ELSE tag.proportion < max_tag

\* a call whose rules 1 to 7 did not fire
NoRuleFired(R) ==
  /\ R.aborted = "no"
  /\ ~(heaps.resv_heap = << >> /\ heaps.burst_heap = << >>
         /\ heaps.best_heap = << >>)
  /\ R.rule \notin RegularCounters

NextCallTimes(R) ==
  ({R.client_map[R.heaps[h][1]].requests[1].tag.limit :
       h \in {h \in {"r_limit_heap", "limit_heap"} :
                /\ R.heaps[h] # << >>
                /\ R.client_map[R.heaps[h][1]].requests # << >>}}
   \cup
   {R.client_map[R.heaps[h][1]].requests[1].tag.reservation :
       h \in {h \in {"resv_heap"} :
                /\ R.heaps[h] # << >>
                /\ R.client_map[R.heaps[h][1]].requests # << >>}})
  \ {TimeZero}

FiniteTime(t) == min_tag < t /\ t < max_tag

\* a call that returned without dispatching
NotDispatching(R) == R.aborted = "no" /\ R.ret.type # "returning"

\* C14: when no rule dispatches, next_request returns Future(next_call),
\* next_call the minimum (ignoring Time_zero) of the head reservation tag
\* of resv_heap's top and the head limit tags of r_limit_heap's and
\* limit_heap's tops, and returns None exactly when that minimum is not
\* finite.
C14_NextCall ==
  aborted = "no" =>
    \A ub \in {1, 2} :
       LET R == AfterCall(ub)
       IN NotDispatching(R) =>
            IF \E t \in NextCallTimes(R) :
                 /\ \A u \in NextCallTimes(R) : t <= u
                 /\ FiniteTime(t)
            THEN \E t \in NextCallTimes(R) :
                   /\ \A u \in NextCallTimes(R) : t <= u
                   /\ R.ret = NextReqFuture(t)
            ELSE R.ret = NextReqNone

\* C15: whenever next_request(now) returns Future(t), t is strictly later
\* than now (nothing is dispatchable at now, and a caller that resumes at t
\* does not poll again at or before the time it already polled).
C15_FutureIsLater ==
  aborted = "no" =>
    \A ub \in {1, 2} :
       LET R == AfterCall(ub)
       IN (R.aborted = "no" /\ R.ret.type = "future")
            => R.ret.when_ready > now

\* a next_request(now) made now rolls the window over
RollsOver ==
  /\ aborted = "no"
  /\ ~(heaps.resv_heap = << >> /\ heaps.burst_heap = << >>
         /\ heaps.best_heap = << >>)
  /\ now - win_start >= win_size

\* c is an R client that was served at least 0.8 * reservation * win_size
\* requests by reservation in the window that ends (R: the state after the
\* roll-over, whose ClientInfo is the refreshed one)
ServedEnough(P, R, c) ==
  /\ R.client_map[c].info.client_type = "R"
  /\ P.client_map[c].r0_counter * TU * 10
        >= R.client_map[c].info.reservation * win_size * 8

\* win_size times (old r_compensation + (reservation * win_size -
\* r0_counter) / win_size), in requests per second
CompensationSum(P, R, c) ==
  P.client_map[c].r_compensation * win_size
    + R.client_map[c].info.reservation * win_size
    - P.client_map[c].r0_counter * TU

\* C16: at a window roll-over, for every R client with r0_counter >=
\* 0.8 * reservation * win_size, r_compensation becomes clamp(old +
\* (reservation * win_size - r0_counter) / win_size, 0, 0.1 * reservation),
\* 0 when that sum is negative, and every other client's r_compensation is
\* unchanged.
C16_Compensation ==
  RollsOver =>
    \A ub \in {1, 2} :
       LET P == State(ub)
           R == BeforeLadder(ub)
       IN R.aborted = "no" =>
            \A c \in DOMAIN P.client_map \cap DOMAIN R.client_map :
               IF ServedEnough(P, R, c)
               THEN IF CompensationSum(P, R, c) < 0
                    THEN R.client_map[c].r_compensation = 0
                    ELSE IF CompensationSum(P, R, c) * 10
                              > R.client_map[c].info.reservation * win_size
                    THEN R.client_map[c].r_compensation * 10
                           = R.client_map[c].info.reservation
                    ELSE R.client_map[c].r_compensation * win_size
                           = CompensationSum(P, R, c)
               ELSE R.client_map[c].r_compensation
                      = P.client_map[c].r_compensation

(* The cleaning job, seen from the state it runs in *)

AfterClean(ub) == do_clean(State(ub), now)

\* the tick of the latest mark point that is at least age old, the mark
\* point the job adds included; 0 when there is none
MarkTick(age) ==
  LET marks == Append(clean_mark_points, [time |-> now, tick |-> tick])
      old == {i \in DOMAIN marks : marks[i].time <= now - age}
  IN IF old = {} THEN 0
     ELSE marks[CHOOSE i \in old : \A j \in old : j <= i].tick

TooOld(c, age) ==
  MarkTick(age) # 0 /\ client_map[c].last_tick <= MarkTick(age)

RECURSIVE WeightOf(_)
WeightOf(cs) ==
  IF cs = {} THEN 0
  ELSE LET c == CHOOSE x \in cs : TRUE
       IN (IF client_map[c].info.client_type = "O" THEN 0
           ELSE client_map[c].info.weight) + WeightOf(cs \ {c})

\* what the statement says of the state do_clean leaves
CleanedAsStated(R) ==
  /\ DOMAIN R.client_map
       = {c \in DOMAIN client_map : ~TooOld(c, erase_age)}
  /\ \A h \in HeapNames : \A i \in DOMAIN R.heaps[h] :
        R.heaps[h][i] \in DOMAIN R.client_map
  /\ R.total_wgt
       = total_wgt - WeightOf({c \in DOMAIN client_map : TooOld(c, erase_age)})
  /\ \A c \in DOMAIN R.client_map :
        R.client_map[c].idle
          = IF TooOld(c, idle_age) THEN TRUE ELSE client_map[c].idle

\* C17: do_clean removes from client_map and from the heaps every client
\* whose last_tick is not newer than the tick of the latest mark point older
\* than erase_age and subtracts its weight from total_wgt (non-O clients),
\* sets idle on every remaining client whose last_tick is not newer than the
\* tick of the latest mark point older than idle_age, and erases or marks no
\* other client.
C17_Clean ==
  (aborted = "no" /\ CleanDue) =>
    \A ub \in {1, 2} :
       /\ AfterClean(ub).aborted = "no"
       /\ CleanedAsStated(AfterClean(ub))

\* the same, for the runs of do_clean the process survives
C17_CleanSurvived ==
  (aborted = "no" /\ CleanDue) =>
    \A ub \in {1, 2} :
       AfterClean(ub).aborted = "no" => CleanedAsStated(AfterClean(ub))

\* schedule_request() run now with can_handle_f() returning false
Denied(ub) == schedule_request(State(ub), now, info_f, FALSE)

\* C18: in the push facade, whenever can_handle() returns false,
\* schedule_request yields None: handle is not invoked, nothing is popped,
\* and no scheduler state changes (no counter, no ready flag, no window
\* roll-over, no future time recorded).
C18_CannotHandle ==
  (aborted = "no" /\ facade = "push") =>
    \A ub \in {1, 2} :
       /\ Denied(ub).aborted = "no"
       /\ Denied(ub).ret = NextReqNone
       /\ Denied(ub).processed = NoProcessed
       /\ Denied(ub).client_map = client_map
       /\ Denied(ub).compensated_client_map = compensated_client_map
       /\ Denied(ub).heaps = heaps
       /\ Denied(ub).tick = tick
       /\ Denied(ub).total_wgt = total_wgt
       /\ Denied(ub).win_start = win_start
       /\ Denied(ub).sched_ahead_when = sched_ahead_when

\* request_completed() has just run with can_handle_f() false while a
\* request could have been dispatched
C18_Witness ==
  /\ facade = "push" /\ aborted = "no"
  /\ last.op = "request_completed" /\ ~last.asked /\ last.type = "none"
  /\ AfterCall(1).aborted = "no"
  /\ AfterCall(1).ret.type = "returning"

-----------------------------------------------------------------------------
(* The threads of PushPriorityQueue: run_sched_ahead, the callers of
   sched_at and the destructor. The contents of the queue are left out:
   what next_request answers is any of its three answers. *)

\* how far the clock runs past Epoch, and how many calls the other threads
\* make that end in sched_at
MaxClock == 3
MaxCalls == 2

\* the future times next_request may answer
FutureTimes == {Epoch + 1, Epoch + 2}

\* the variables of the scheduler proper, which these threads leave alone
AheadFrame ==
  UNCHANGED <<client_map, compensated_client_map, heaps, tick, total_wgt,
              win_start, clean_mark_points, allow_limit_break, facade,
              aborted, assert_failed, info_f, last_clean, steps, admin,
              limits, quiet, submitted, dispatched, last>>

AheadInit ==
  /\ Init
  /\ facade = "push" /\ ~allow_limit_break
  /\ info_f = <<InfoR, InfoB>>
  /\ limits = [ticks |-> MaxTick, steps |-> MaxSteps, admin |-> 0,
               capacity |-> system_capacity]

\* run_sched_ahead without the l.unlock() before it takes data_mtx
HoldsMtx_kept ==
  ahead.pc \in {"while", "if_when", "while_now", "reset", "if_finishing",
                "if_finishing2", "schedule_request"}

\* run_sched_ahead holds sched_ahead_mtx (the unique_lock l) at these places
HoldsMtx ==
  ahead.pc \in {"while", "if_when", "while_now", "reset", "if_finishing"}

\* sched_at(when) under sched_ahead_mtx: what it records, and whether it
\* notifies
Recorded(when) ==
  sched_at([sched_ahead_when |-> sched_ahead_when,
            finishing |-> ahead.finishing], when).sched_ahead_when

Notifies(when) ==
  /\ ~ahead.finishing
  /\ (TimeZero = sched_ahead_when \/ when < sched_ahead_when)

\* sched_ahead_cv.notify_one(): a thread blocked in wait or wait_for is
\* woken, otherwise nothing happens
notify_one(pc) ==
  IF pc = "wait" THEN "woken"
  ELSE IF pc = "wait_for" THEN "woken_for"
  ELSE pc

\* std::unique_lock<std::mutex> l(sched_ahead_mtx)
AheadLock ==
  /\ ahead.pc = "start"
  /\ ahead' = [ahead EXCEPT !.pc = "while"]
  /\ UNCHANGED <<sched_ahead_when, now>>
  /\ AheadFrame

\* while (!this->finishing)
AheadWhile ==
  /\ ahead.pc = "while"
  /\ ahead' = [ahead EXCEPT !.pc = IF ahead.finishing THEN "done"
                                   ELSE "if_when"]
  /\ UNCHANGED <<sched_ahead_when, now>>
  /\ AheadFrame

\* if (TimeZero == sched_ahead_when) sched_ahead_cv.wait(l); else ...
AheadIfWhen ==
  /\ ahead.pc = "if_when"
  /\ ahead' = [ahead EXCEPT !.pc = IF TimeZero = sched_ahead_when
                                   THEN "wait" ELSE "while_now"]
  /\ UNCHANGED <<sched_ahead_when, now>>
  /\ AheadFrame

\* while (!this->finishing && (now = get_time()) < sched_ahead_when)
\*   sched_ahead_cv.wait_for(l, microseconds);
AheadWhileNow ==
  /\ ahead.pc = "while_now"
  /\ ahead' = IF ~ahead.finishing /\ now < sched_ahead_when
              THEN [ahead EXCEPT !.pc = "wait_for",
                                 !.deadline = sched_ahead_when]
              ELSE [ahead EXCEPT !.pc = "reset"]
  /\ UNCHANGED <<sched_ahead_when, now>>
  /\ AheadFrame

\* wait_for returns because its time is over
AheadTimeout ==
  /\ ahead.pc = "wait_for" /\ now >= ahead.deadline
  /\ ahead' = [ahead EXCEPT !.pc = "woken_for"]
  /\ UNCHANGED <<sched_ahead_when, now>>
  /\ AheadFrame

\* a condition variable may wake without a notification
AheadSpurious ==
  /\ ahead.pc \in {"wait", "wait_for"}
  /\ ahead' = [ahead EXCEPT !.pc = notify_one(ahead.pc)]
  /\ UNCHANGED <<sched_ahead_when, now>>
  /\ AheadFrame

\* wait and wait_for take the mutex again before they return
AheadWoken ==
  /\ ahead.pc \in {"woken", "woken_for"}
  /\ ahead' = [ahead EXCEPT !.pc = IF ahead.pc = "woken" THEN "while"
                                   ELSE "while_now"]
  /\ UNCHANGED <<sched_ahead_when, now>>
  /\ AheadFrame

\* sched_ahead_when = TimeZero
AheadReset ==
  /\ ahead.pc = "reset"
  /\ sched_ahead_when' = TimeZero
  /\ ahead' = [ahead EXCEPT !.pc = "if_finishing",
                            !.due = ahead.due \cup ahead.pending,
                            !.pending = {}]
  /\ UNCHANGED now
  /\ AheadFrame

\* if (this->finishing) return; l.unlock();
AheadIfFinishing ==
  /\ ahead.pc = "if_finishing"
  /\ ahead' = [ahead EXCEPT !.pc = IF ahead.finishing THEN "done"
                                   ELSE "if_finishing2"]
  /\ UNCHANGED <<sched_ahead_when, now>>
  /\ AheadFrame

\* if (!this->finishing) { DataGuard g(this->data_mtx); ...
AheadIfFinishing2 ==
  /\ ahead.pc = "if_finishing2"
  /\ IF ahead.finishing
     THEN ahead' = [ahead EXCEPT !.pc = "lock"]
     ELSE /\ ahead.data_mtx = "free"
          /\ ahead' = [ahead EXCEPT !.pc = "schedule_request",
                                    !.data_mtx = "ahead"]
  /\ UNCHANGED <<sched_ahead_when, now>>
  /\ AheadFrame

\* schedule_request() under data_mtx: next_request answers none or
\* returning, or a future time that goes to sched_at
AheadSchedule ==
  /\ ahead.pc = "schedule_request"
  /\ \/ /\ ahead' = [ahead EXCEPT !.pc = "lock", !.data_mtx = "free",
                                  !.due = {}]
        /\ UNCHANGED sched_ahead_when
     \/ \E when \in FutureTimes :
           /\ sched_ahead_when' = Recorded(when)
           /\ ahead' = [ahead EXCEPT
                          !.pc = "lock", !.data_mtx = "free", !.due = {},
                          !.pending = IF ahead.finishing THEN @
                                      ELSE @ \cup {when}]
  /\ UNCHANGED now
  /\ AheadFrame

\* l.lock()
AheadRelock ==
  /\ ahead.pc = "lock"
  /\ ahead' = [ahead EXCEPT !.pc = "while"]
  /\ UNCHANGED <<sched_ahead_when, now>>
  /\ AheadFrame

\* the steps of run_sched_ahead that the thread takes when it can
AheadThread ==
  \/ AheadLock \/ AheadWhile \/ AheadIfWhen \/ AheadWhileNow
  \/ AheadTimeout \/ AheadWoken \/ AheadReset \/ AheadIfFinishing
  \/ AheadIfFinishing2 \/ AheadSchedule \/ AheadRelock

\* add_request or request_completed on another thread: under data_mtx,
\* next_request answers Future(when)
CallerFuture(when) ==
  /\ ahead.dtor = "idle" /\ ahead.data_mtx = "free"
  /\ ahead.calls < MaxCalls
  /\ ahead' = [ahead EXCEPT !.data_mtx = "caller", !.when = when,
                            !.calls = @ + 1]
  /\ UNCHANGED <<sched_ahead_when, now>>
  /\ AheadFrame

\* ... and schedule_request calls sched_at(when), which takes
\* sched_ahead_mtx; the call then returns and data_mtx is free again
CallerSchedAt ==
  /\ ahead.data_mtx = "caller" /\ ~HoldsMtx
  /\ sched_ahead_when' = Recorded(ahead.when)
  /\ ahead' = [ahead EXCEPT
                 !.data_mtx = "free", !.when = TimeZero,
                 !.pending = IF ahead.finishing THEN @
                             ELSE @ \cup {ahead.when},
                 !.pc = IF Notifies(ahead.when) THEN notify_one(@) ELSE @]
  /\ UNCHANGED now
  /\ AheadFrame

\* ~PushPriorityQueue: this->finishing = true
DtorFinishing ==
  /\ ahead.dtor = "idle" /\ ahead.data_mtx # "caller"
  /\ ahead' = [ahead EXCEPT !.dtor = "notify_one", !.finishing = TRUE]
  /\ UNCHANGED <<sched_ahead_when, now>>
  /\ AheadFrame

\* sched_ahead_cv.notify_one()
DtorNotify ==
  /\ ahead.dtor = "notify_one"
  /\ ahead' = [ahead EXCEPT !.dtor = "join", !.pc = notify_one(@)]
  /\ UNCHANGED <<sched_ahead_when, now>>
  /\ AheadFrame

\* sched_ahead_thd.join() returns when run_sched_ahead has returned
DtorJoin ==
  /\ ahead.dtor = "join" /\ ahead.pc = "done"
  /\ ahead' = [ahead EXCEPT !.dtor = "joined"]
  /\ UNCHANGED <<sched_ahead_when, now>>
  /\ AheadFrame

\* the clock
AheadTick ==
  /\ now < Epoch + MaxClock
  /\ now' = now + 1
  /\ UNCHANGED <<sched_ahead_when, ahead>>
  /\ AheadFrame

AheadNext ==
  \/ AheadLock
  \/ AheadWhile
  \/ AheadIfWhen
  \/ AheadWhileNow
  \/ AheadTimeout
  \/ AheadSpurious
  \/ AheadWoken
  \/ AheadReset
  \/ AheadIfFinishing
  \/ AheadIfFinishing2
  \/ AheadSchedule
  \/ AheadRelock
  \/ \E when \in FutureTimes : CallerFuture(when)
  \/ CallerSchedAt
  \/ DtorFinishing
  \/ DtorNotify
  \/ DtorJoin
  \/ AheadTick

\* every thread that can take a step takes one in the end, and time
\* passes; a spurious wake-up may never come, and nothing obliges the
\* program to make a call or to destroy the queue
AheadSpec ==
  /\ AheadInit
  /\ [][AheadNext]_vars
  /\ WF_vars(AheadThread)
  /\ WF_vars(CallerSchedAt)
  /\ WF_vars(DtorNotify \/ DtorJoin)
  /\ WF_vars(AheadTick)

\* C19: destruction of a push queue always terminates: once
\* ~PushPriorityQueue has set finishing, run_sched_ahead observes it and
\* returns, and the join returns, whatever the interleaving.
C19_DestructorTerminates ==
  (ahead.dtor # "idle") ~> (ahead.dtor = "joined")


\* the future times sched_at has recorded that run_sched_ahead has not yet
\* taken (pending), and those it has taken without having run
\* schedule_request yet (due)
EarliestPending ==
  CHOOSE t \in ahead.pending : \A u \in ahead.pending : t <= u

\* C20: in the push facade a future time recorded by sched_at is never lost
\* or overwritten by a later one: sched_ahead_when is the earliest time
\* recorded, run_sched_ahead takes it only when the clock has reached it,
\* and then runs schedule_request again, unless finishing is set; for every
\* interleaving of sched_at with run_sched_ahead.
C20_FutureServed ==
  /\ []((ahead.pending # {} /\ ~ahead.finishing)
          => /\ sched_ahead_when = EarliestPending
             /\ ahead.pc = "reset" => now >= EarliestPending)
  /\ (ahead.pending # {} /\ ~ahead.finishing)
       ~> (ahead.pending = {} \/ ahead.finishing)
  /\ (ahead.due # {} /\ ~ahead.finishing)
       ~> (ahead.due = {} \/ ahead.finishing)

\* run_sched_ahead is about to run schedule_request for two different
\* future times that two calls of sched_at recorded
C20_Witness ==
  /\ ahead.pc = "schedule_request" /\ ~ahead.finishing
  /\ ahead.due = FutureTimes
  /\ ahead.calls = MaxCalls

-----------------------------------------------------------------------------
(* The push facade's dispatch, seen from the state it is made in *)

\* schedule_request() run now with can_handle_f() returning true
Scheduled(ub) == schedule_request(State(ub), now, info_f, TRUE)

\* the payloads a state holds for a client
PayloadsOf(R, c) ==
  [i \in 1 .. Len(R.client_map[c].requests) |->
     R.client_map[c].requests[i].request]

\* heap h of a state has a top that precedes or equals every other member
TopFirstIn(M, h) ==
  \A i \in 1 .. Len(M.heaps[h]) :
     ~HeapCompare(h, M.client_map[M.heaps[h][i]], M.client_map[M.heaps[h][1]])

\* a schedule_request that dispatched
Dispatched(R) ==
  R.aborted = "no" /\ R.ret.type = "returning" /\ R.processed # NoProcessed

\* C21: in the push facade handle(client, request, phase) is invoked only
\* after the request has left the client's FIFO, the next head's tag and
\* prev_tag have been updated and the client has been re-positioned in all
\* its heaps; nothing of the scheduler changes between the callback and
\* the return of schedule_request to the holder of data_mtx.
C21_HandleAfterUpdate ==
  (aborted = "no" /\ facade = "push") =>
    \A ub \in {1, 2} :
       LET D == AfterCall(ub)
           R == Scheduled(ub)
           c == R.processed.client
       IN Dispatched(R) =>
            /\ PayloadsOf(R.handled, c) = Tail(PayloadsOf(D, c))
            /\ R.processed.request = Head(PayloadsOf(D, c))
            /\ R.handled.client_map = R.client_map
            /\ R.handled.heaps = R.heaps
            /\ \A h \in HeapsOfType(R.handled.client_map[c].info.client_type) :
                  /\ \E i \in 1 .. Len(R.handled.heaps[h]) :
                        R.handled.heaps[h][i] = c
                  /\ TopFirstIn(R.handled, h)


\* the same with "its heaps" read as the heaps the client is a member of
C21_HandleAfterUpdateMember ==
  (aborted = "no" /\ facade = "push") =>
    \A ub \in {1, 2} :
       LET D == AfterCall(ub)
           R == Scheduled(ub)
           c == R.processed.client
       IN Dispatched(R) =>
            /\ PayloadsOf(R.handled, c) = Tail(PayloadsOf(D, c))
            /\ R.processed.request = Head(PayloadsOf(D, c))
            /\ R.handled.client_map = R.client_map
            /\ R.handled.heaps = R.heaps
            /\ \A h \in HeapNames :
                  (\E i \in 1 .. Len(R.handled.heaps[h]) :
                      R.handled.heaps[h][i] = c)
                    => TopFirstIn(R.handled, h)

\* the order of the steps alone: the callback sees the request gone and
\* the state schedule_request returns
C21_HandleLast ==
  (aborted = "no" /\ facade = "push") =>
    \A ub \in {1, 2} :
       LET D == AfterCall(ub)
           R == Scheduled(ub)
           c == R.processed.client
       IN Dispatched(R) =>
            /\ PayloadsOf(R.handled, c) = Tail(PayloadsOf(D, c))
            /\ R.processed.request = Head(PayloadsOf(D, c))
            /\ R.handled.client_map = R.client_map
            /\ R.handled.heaps = R.heaps

-----------------------------------------------------------------------------
(* Clients whose ClientInfo has all rates zero (pool no-exist) *)

ZeroRates(i) == i.reservation = 0 /\ i.weight = 0 /\ i.limit = 0

\* the clients whose zero ClientInfo a roll-over made now would observe
Vanishing ==
  {c \in DOMAIN client_map :
     ZeroRates(info_f[c]) /\ ~ZeroRates(client_map[c].info)}

RECURSIVE WeightChange(_)
WeightChange(cs) ==
  IF cs = {} THEN 0
  ELSE LET c == CHOOSE x \in cs : TRUE
       IN (info_f[c].weight - client_map[c].info.weight)
            + WeightChange(cs \ {c})

\* the roll-over keeps the client in client_map and takes its weight out
\* of total_wgt
C22_Observed ==
  (RollsOver /\ Vanishing # {}) =>
    \A ub \in {1, 2} :
       LET R == BeforeLadder(ub)
       IN /\ R.aborted = "no"
          /\ DOMAIN R.client_map = DOMAIN client_map
          /\ \A c \in Vanishing : ZeroRates(R.client_map[c].info)
          /\ R.total_wgt = total_wgt + WeightChange(DOMAIN client_map)

\* an add_request for a client whose ClientInfo has all rates zero is
\* accepted
C22_AddAccepted ==
  aborted = "no" =>
    \A c \in DOMAIN client_map : \A rp \in ReqParamsSet : \A ub \in {1, 2} :
       ZeroRates(client_map[c].info) =>
         LET R == do_add_request(State(ub), tick + 1, c, rp, now, info_f)
         IN /\ R.aborted = "no"
            /\ PayloadsOf(R, c) = Append(PayloadsOf(State(ub), c), tick + 1)


\* C22: a client whose ClientInfo fetched from the callback has all rates
\* zero stays in client_map and contributes zero to total_wgt from the
\* window boundary at which the zero info was observed, and handling it,
\* a later add_request for it included, is not a fatal error.
C22_NoexistTransient == C22_Observed /\ C22_AddAccepted

-----------------------------------------------------------------------------
(* Saturated clients: every request submitted when the queue is built,
   the clock read at every time unit *)

\* bounds of the exploration: requests per client, and time units of clock
\* after construction (less than erase_age + check_time, so that the
\* cleaning job marks clients idle but erases none)
SatRequests == 4
SatClock == 36

\* the _system_capacity of a saturated run (requests / second): just under
\* four requests a window
SatCapacity == 33

\* an R client whose limit is its reservation and whose weight is 0
InfoRsat == ClientInfo(10, 0, 10, "R")

\* B clients of weights 1 and 3 without a limit
InfoBw1 == ClientInfo(0, 1, 0, "B")
InfoBw3 == ClientInfo(0, 3, 0, "B")

\* a best-effort client with a limit
InfoAlim == ClientInfo(0, 1, 10, "A")

\* the client identifiers of the saturated runs
SatClients == {1, 2, 3}

\* what the callback returns for the clients of a saturated run
SatInfos ==
  {<<InfoRsat, InfoA>>, <<InfoBw1, InfoBw3>>, <<InfoRsat, InfoBw1, InfoA>>,
   <<InfoAlim>>}

SatInit ==
  /\ client_map = << >>
  /\ compensated_client_map = << >>
  /\ heaps = [h \in HeapNames |-> << >>]
  /\ tick = 0
  /\ total_wgt = 0
  /\ win_start = 0
  /\ clean_mark_points = << >>
  /\ sched_ahead_when = TimeZero
  /\ allow_limit_break \in BOOLEAN
  /\ facade = "pull"
  /\ aborted = "no"
  /\ assert_failed = FALSE
  /\ now = Epoch
  /\ info_f \in SatInfos
  /\ last_clean = Epoch
  /\ steps = 0
  /\ admin = 0
  /\ limits = [ticks |-> 3 * SatRequests, steps |-> 0, admin |-> 0,
               capacity |-> SatCapacity]
  /\ ahead = AheadStart
  /\ quiet = TRUE
  /\ submitted = [c \in DOMAIN info_f |-> << >>]
  /\ dispatched = [c \in DOMAIN info_f |-> << >>]
  /\ last = NoLast

\* add_request(request, client_id, req_params, time) at construction time,
\* before the first pull_request, one client after the other
SatSubmit(c, rp) ==
  /\ c \in DOMAIN info_f
  /\ now = Epoch /\ Len(submitted[c]) < SatRequests
  /\ last.op # "pull_request"
  /\ \A d \in DOMAIN info_f : c < d => submitted[d] = << >>
  /\ AddRequest(c, rp)

\* the state a next_request(now) made now returns in, for each outcome of
\* what the call reads
Polled == {do_next_request(State(ub), now, info_f) : ub \in {1, 2}}

\* the clock goes on by one time unit once the queue has been polled until
\* it returns no request
SatTick ==
  /\ Running /\ now < Epoch + SatClock
  /\ \A R \in Polled : R.ret.type # "returning"
  /\ now' = now + 1
  /\ UNCHANGED <<client_map, compensated_client_map, heaps, tick, total_wgt,
                 win_start, clean_mark_points, sched_ahead_when,
                 allow_limit_break, facade, limits, ahead, aborted,
                 assert_failed, info_f, last_clean, steps, admin, quiet,
                 submitted, dispatched, last>>

SatNext ==
  \/ \E c \in SatClients, rp \in ReqParamsSet : SatSubmit(c, rp)
  \/ PullRequest
  \/ DoClean
  \/ SatTick

SatSpec == SatInit /\ [][SatNext]_vars

\* the state a pull_request(now) made now returns in
Pulled(ub) == pull_request(State(ub), now, info_f)


\* client c is the only client that has submitted requests
Alone(c) == \A d \in DOMAIN info_f \ {c} : submitted[d] = << >>

\* a pull_request made now returns a request of client c
Serves(R, c) == R.ret.type = "returning" /\ R.processed.client = c

\* the requests of c dispatched so far are spaced by gap time units from
\* construction on, the one R dispatches included
SpacedBy(R, c, gap) ==
  Serves(R, c) => now >= Epoch + Len(dispatched[c]) * gap

\* a queue polled until it returns nothing has dispatched every request of
\* c by the time the last of them is due at gap time units a request
PaidBy(R, c, gap) ==
  (R.ret.type # "returning" /\ now >= Epoch + Len(submitted[c]) * gap)
    => dispatched[c] = submitted[c]

\* every dispatch of c is made from resv_heap in the reservation phase
ByReservation(R, c) ==
  Serves(R, c) => R.ret.heap_id = "resv_heap" /\ R.phase = "reservation"

\* the saturated R client of the run, limits enforced
SatR ==
  /\ info_f = <<InfoRsat, InfoA>> /\ Alone(1)
  /\ ~allow_limit_break /\ aborted = "no"

\* C23 as stated: a saturated R client with reservation rate r, weight 0 and
\* limit r is served from resv_heap in the reservation phase only, its k-th
\* dispatch no earlier than t0 + k/r, and all its r*T requests by t0 + T.
C23_ReservationPace ==
  SatR => \A ub \in {1, 2} :
    /\ ByReservation(Pulled(ub), 1)
    /\ SpacedBy(Pulled(ub), 1, InfoRsat.reservation_inv)
    /\ PaidBy(Pulled(ub), 1, InfoRsat.reservation_inv)


\* the requests of client c dispatched in the current window, whatever the
\* rule
InWindow(c) ==
  client_map[c].r0_counter + client_map[c].r0_break_limit_counter
  + client_map[c].deltar_counter + client_map[c].deltar_break_limit_counter
  + client_map[c].b_counter + client_map[c].b_break_limit_counter
  + client_map[c].be_counter + client_map[c].be_break_limit_counter

\* the window that began at win_start is over, and the queue has not
\* been asked since
WindowOver == win_start >= Epoch /\ now - win_start >= win_size

\* both clients have had a request queued all through the window
Saturated ==
  /\ DOMAIN client_map = DOMAIN info_f
  /\ \A c \in DOMAIN info_f : has_request(client_map[c])


\* the two B clients of weights 1 and 3 of the run
SatB == info_f = <<InfoBw1, InfoBw3>> /\ aborted = "no"

\* n1 : n2 is w1 : w2 up to one request of the client of the larger count
InRatio(n1, n2, w1, w2) ==
  /\ n1 * w2 - n2 * w1 <= Min(w1, w2)
  /\ n2 * w1 - n1 * w2 <= Min(w1, w2)

SatMix ==
  /\ info_f = <<InfoRsat, InfoBw1, InfoA>> /\ aborted = "no"
  /\ DOMAIN client_map = DOMAIN info_f

\* some B client has a request queued
PendingB ==
  \E c \in DOMAIN client_map :
    client_map[c].info.client_type = "B" /\ has_request(client_map[c])

\* a pull_request made now returns a request of an A client
ServesA(R) ==
  /\ R.ret.type = "returning"
  /\ client_map[R.processed.client].info.client_type = "A"


\* the B clients with a request queued that the window maintenance of a
\* call made now leaves under their budget of burst dispatches
BudgetedB(P) ==
  {c \in DOMAIN P.client_map :
     /\ P.client_map[c].info.client_type = "B"
     /\ has_request(P.client_map[c])
     /\ BelowBudget(P.client_map[c].b_counter, P.client_map[c].resource, 0)}

\* the R client, queued all through the window that is over, was
\* dispatched reservation * win_size requests in it by rule 1 (in whole
\* requests)
PaidR(c) ==
  (WindowOver /\ c \in DOMAIN client_map /\ has_request(client_map[c]))
    => client_map[c].r0_counter
         >= (client_map[c].info.reservation * win_size) \div TU

-----------------------------------------------------------------------------
(* A limited B client polled at the time of its submissions *)

\* a single B client with a limit has submitted requests to a pull queue
\* that may break limits, and the clock has not moved since construction
BurstAtOnce ==
  /\ facade = "pull" /\ allow_limit_break /\ aborted = "no"
  /\ info_f = <<InfoB, InfoA>> /\ admin = 0 /\ now = Epoch
  /\ Alone(1) /\ 1 \in DOMAIN client_map

\* C26: with allow_limit_break = true, a single B client with a positive
\* limit whose N requests are submitted and polled at the same time gets
\* exactly one request dispatched by rule 3 (incrementing b_counter) and the
\* remaining N - 1 by the limit-break rule 8, each incrementing
\* b_break_limit_counter by one.
C26_BurstThenBreak ==
  BurstAtOnce =>
    /\ client_map[1].b_counter = Min(Len(dispatched[1]), 1)
    /\ client_map[1].b_counter + client_map[1].b_break_limit_counter
         = Len(dispatched[1])
    /\ has_request(client_map[1]) =>
         \A ub \in {1, 2} :
           /\ Pulled(ub).ret.type = "returning"
           /\ Pulled(ub).rule = IF dispatched[1] = << >> THEN "b_counter"
                                ELSE "b_break_limit_counter"

\* every request submitted has been dispatched: one by rule 3, the others
\* by rule 8
C26_Witness ==
  /\ BurstAtOnce /\ Len(submitted[1]) = MaxTick
  /\ dispatched[1] = submitted[1]
  /\ client_map[1].b_counter = 1
  /\ client_map[1].b_break_limit_counter = MaxTick - 1


-----------------------------------------------------------------------------
(* The tag a RequestTag constructor call made now would compute *)

\* bounds of the calls examined: the distances rho and delta a request
\* carries, and the anticipation timeout the queue is constructed with
MaxDist == 2
MaxAnticipation == 5

Dists == 0 .. MaxDist
Anticipations == {0, MaxAnticipation}

\* the ClientInfo values a call made now for client c may be given
InfosOf(c) == {client_map[c].info, info_f[c]}

\* P holds of (info, prev_tag, delta, rho, anticipation, tag) for the tag
\* every such call computes from the client's prev_tag at the time now
AllTags(P(_, _, _, _, _, _)) ==
  \A c \in DOMAIN client_map : \A i \in InfosOf(c) :
    \A delta \in Dists, rho \in Dists, a \in Anticipations :
      P(i, client_map[c].prev_tag, delta, rho, a,
        RequestTag(client_map[c].prev_tag, i, delta, rho, now, a))

\* C27 as stated: a tag field is +infinity whenever its rate is zero, the
\* limit included.
C27_ZeroRateHigh ==
  AllTags(LAMBDA i, prev, delta, rho, a, tag :
    /\ i.reservation = 0 => tag.reservation = max_tag
    /\ i.weight = 0 => tag.proportion = max_tag
    /\ i.limit = 0 => tag.limit = max_tag)

\* C27, amended: reservation = +infinity if the reservation rate is 0,
\* proportion = +infinity if the weight is 0, and limit = -infinity if the
\* limit rate is 0.
C27_ZeroRateExtreme ==
  AllTags(LAMBDA i, prev, delta, rho, a, tag :
    /\ i.reservation = 0 => tag.reservation = max_tag
    /\ i.weight = 0 => tag.proportion = max_tag
    /\ i.limit = 0 => tag.limit = min_tag)

\* a client without a limit and without a reservation has a request
\* queued whose tag has limit -infinity and reservation +infinity
C27_Witness ==
  \E c \in DOMAIN client_map :
    /\ client_map[c].info.limit = 0 /\ client_map[c].info.reservation = 0
    /\ has_request(client_map[c])
    /\ next_request(client_map[c]).tag.limit = min_tag
    /\ next_request(client_map[c]).tag.reservation = max_tag


\* the time of a tag: time - anticipation_timeout if that is before the
\* arrival of the previous request, time otherwise
TagTime(prev, a) == IF now - a < prev.arrival THEN now - a ELSE now

\* max(t', P.field + d * inv_rate), an infinite P.field staying infinite
Advanced(time, field, d, inv) == Max(time, TagAdd(field, d * inv))

\* the three fields of tag are each Advanced by the distance Dist(d) of its
\* request parameter d, where the rate is not zero
FieldsAdvanced(i, prev, delta, rho, a, tag, Dist(_)) ==
  /\ i.reservation_inv # 0 =>
       tag.reservation = Advanced(TagTime(prev, a), prev.reservation,
                                  Dist(rho), i.reservation_inv)
  /\ i.weight_inv # 0 =>
       tag.proportion = Advanced(TagTime(prev, a), prev.proportion,
                                 Dist(delta), i.weight_inv)
  /\ i.limit_inv # 0 =>
       tag.limit = Advanced(TagTime(prev, a), prev.limit,
                            Dist(delta), i.limit_inv)

\* C28 as stated: for a nonzero rate each new tag field equals
\* max(t', P.field + d * inv_rate) for every distance d >= 0 (rho for
\* reservation, delta for proportion and limit), d = 0 adding nothing.
C28_TagFields ==
  AllTags(LAMBDA i, prev, delta, rho, a, tag :
    FieldsAdvanced(i, prev, delta, rho, a, tag, LAMBDA d : d))

\* C28, amended: for a nonzero rate each new tag field equals
\* max(t', P.field + d * inv_rate) for every distance d >= 1 (rho for
\* reservation, delta for proportion and limit); a distance of 0 counts as
\* 1, adding inv_rate.
C28_TagFieldsFromOne ==
  AllTags(LAMBDA i, prev, delta, rho, a, tag :
    FieldsAdvanced(i, prev, delta, rho, a, tag,
                   LAMBDA d : IF d = 0 THEN 1 ELSE d))

\* a client with a reservation whose previous request arrived now and whose
\* previous reservation tag is ahead of the clock: the anticipation timeout
\* applies and the distance decides the tag
C28_Witness ==
  \E c \in DOMAIN client_map :
    /\ client_map[c].info.reservation_inv # 0
    /\ client_map[c].prev_tag.arrival = now
    /\ client_map[c].prev_tag.reservation > now
    /\ RequestTag(client_map[c].prev_tag, client_map[c].info, 1, 2, now,
                  MaxAnticipation).reservation
         = client_map[c].prev_tag.reservation
           + 2 * client_map[c].info.reservation_inv


-----------------------------------------------------------------------------
(* The assertion of the RequestTag constructor *)

\* the tag do_add_request constructs for a request of client c that finds
\* the queue empty
FirstTag(c, rp) ==
  RequestTag(client_map[c].prev_tag, client_info_wrapper(State(1), c),
             rp.delta, rp.rho, now, anticipation_timeout)

\* C29: every RequestTag constructed by add_request, by the deferred tag
\* computation at pop, or copied by class migration has a finite reservation
\* or a finite proportion (the constructor's assertion never fails), for
\* every client configuration the callback can give, class or rate changes
\* at a window boundary included.
C29_TagAssertHolds ==
  aborted = "no" =>
    \A c \in DOMAIN client_map :
      IF has_request(client_map[c])
      THEN TagAssert(next_request(client_map[c]).tag)
      ELSE \A rp \in ReqParamsSet : TagAssert(FirstTag(c, rp))


-----------------------------------------------------------------------------
(* The proportion realignment of an idle client at add_request *)

\* the state an add_request for client c made now returns in
Added(ub, c, rp) ==
  do_add_request(State(ub), tick + 1, c, rp, now, info_f)

\* the clients that are not idle
Active == {d \in DOMAIN client_map : ~client_map[d].idle}

\* head tag proportion, or prev_tag.proportion if the queue is empty, plus
\* prop_delta
EffectiveProp(d) ==
  TagAdd(IF has_request(client_map[d])
         THEN next_request(client_map[d]).tag.proportion
         ELSE client_map[d].prev_tag.proportion,
         client_map[d].prop_delta)

\* m is the minimum of EffectiveProp over the clients not idle, and finite
LowestIs(m) ==
  /\ min_tag < m /\ m < max_tag
  /\ \E d \in Active : EffectiveProp(d) = m
  /\ \A d \in Active : m <= EffectiveProp(d)

\* client c is idle, or not yet in client_map
IdleNow(c) == c \notin DOMAIN client_map \/ client_map[c].idle

\* the call finds the queue of c empty: its request is tagged at once
QueueEmpty(c) ==
  c \notin DOMAIN client_map \/ ~has_request(client_map[c])

\* prop_delta and prev_tag.proportion of c before the call (those of a
\* new ClientRec for a client the call creates)
PropDeltaNow(c) ==
  IF c \in DOMAIN client_map THEN client_map[c].prop_delta ELSE 0

PrevPropNow(c) ==
  IF c \in DOMAIN client_map THEN client_map[c].prev_tag.proportion ELSE 0

\* the call set prop_delta to m - now and cleared idle
Realigned(R, c, m) ==
  /\ R.client_map[c].prop_delta = m - now
  /\ ~R.client_map[c].idle

\* the effective proportion of the request the call queued is m + lead
StartsAt(R, c, m, lead) ==
  TagAdd(next_request(R.client_map[c]).tag.proportion,
         R.client_map[c].prop_delta)
    = m + lead

\* by how much the proportion tag of the request lies ahead of the clock:
\* the previous proportion tag plus the increment, less now
Lead(R, c, rp) ==
  Max(0, PrevPropNow(c) + R.client_map[c].info.weight_inv * rp.delta - now)

\* the calls examined: an add_request made now on a pull queue for an idle
\* or new client, which returns
Realigning(c, R) ==
  aborted = "no" /\ facade = "pull" /\ IdleNow(c) /\ R.aborted = "no"

\* C30 as stated: an add_request at time t for an idle or new client, with
\* a finite minimum m of the effective proportions of the clients not idle,
\* sets prop_delta to m - t and clears idle, so that the effective
\* proportion of its first request (for a client with a weight) is m; with
\* no client not idle prop_delta is left unchanged.
C30_IdleRealign ==
  \A c \in Clients, rp \in ReqParamsSet, ub \in {1, 2} :
    Realigning(c, Added(ub, c, rp))
      => /\ \A m \in {EffectiveProp(d) : d \in Active} :
              LowestIs(m) =>
                /\ Realigned(Added(ub, c, rp), c, m)
                /\ (QueueEmpty(c)
                      /\ Added(ub, c, rp).client_map[c].info.weight > 0)
                     => StartsAt(Added(ub, c, rp), c, m, 0)
         /\ Active = {} =>
              Added(ub, c, rp).client_map[c].prop_delta = PropDeltaNow(c)

\* C30, amended: such an add_request sets prop_delta to m - t and clears
\* idle, so that the effective proportion of its first request, for a
\* client with a weight, is m plus the lead of the request's proportion
\* tag over t: m when the previous proportion tag plus the increment is
\* not later than t; with no client not idle prop_delta is left unchanged.
C30_IdleRealignLead ==
  \A c \in Clients, rp \in ReqParamsSet, ub \in {1, 2} :
    Realigning(c, Added(ub, c, rp))
      => /\ \A m \in {EffectiveProp(d) : d \in Active} :
              LowestIs(m) =>
                /\ Realigned(Added(ub, c, rp), c, m)
                /\ (QueueEmpty(c)
                      /\ Added(ub, c, rp).client_map[c].info.weight > 0)
                     => StartsAt(Added(ub, c, rp), c, m,
                                 Lead(Added(ub, c, rp), c, rp))
         /\ Active = {} =>
              Added(ub, c, rp).client_map[c].prop_delta = PropDeltaNow(c)

\* an idle client with an empty queue and a weight, whose previous
\* proportion tag plus the increment is ahead of the clock, while the
\* lowest effective proportion of the other clients is not what its
\* prop_delta gives
C30_Witness ==
  \E c \in DOMAIN client_map, m \in {EffectiveProp(d) : d \in Active} :
    /\ aborted = "no" /\ facade = "pull"
    /\ client_map[c].idle /\ ~has_request(client_map[c])
    /\ client_map[c].info.weight > 0
    /\ client_map[c].prev_tag.proportion + client_map[c].info.weight_inv
         > now
    /\ LowestIs(m) /\ m - now # client_map[c].prop_delta

-----------------------------------------------------------------------------
(* Deferred tags: the placeholder of do_add_request and the tag the next
   head gets in pop_process_request *)

TagFields == {"reservation", "proportion", "limit"}

\* the finite fields of the head request's tag are those of prev_tag
HeadIsPrev(rec) ==
  \A f \in TagFields :
    (min_tag < next_request(rec).tag[f] /\ next_request(rec).tag[f] < max_tag)
      => rec.prev_tag[f] = next_request(rec).tag[f]

\* the call appended a placeholder and touched neither prev_tag nor the
\* client's index in any heap
PlaceholderOnly(R, c) ==
  /\ R.client_map[c].requests =
       Append(client_map[c].requests,
              [tag |-> RequestTag4(0, 0, 0, now), request |-> tick + 1])
  /\ R.client_map[c].prev_tag = client_map[c].prev_tag
  /\ R.client_map[c].heap_data = client_map[c].heap_data

\* the tag the constructor gives the request behind the head of c, from
\* the head's tag
TagBehind(R, c) ==
  RequestTag(next_request(client_map[c]).tag, client_info_wrapper(R, c),
             client_map[c].cur_delta, client_map[c].cur_rho,
             client_map[c].requests[2].tag.arrival, anticipation_timeout)

\* the new head of c has that tag, less one reservation_inv after a
\* dispatch from deltar_heap
HeadRetagged(R, c) ==
  \A f \in TagFields \cup {"arrival"} :
    next_request(R.client_map[c]).tag[f] =
      IF f = "reservation" /\ R.processed.heap = "deltar_heap"
      THEN TagAdd(TagBehind(R, c)[f],
                  0 - client_info_wrapper(R, c).reservation_inv)
      ELSE TagBehind(R, c)[f]

\* a pull_request made now that dispatches a request of a client with
\* another one queued behind it, outside a window roll-over
PopsOneOfTwo(R, c) ==
  /\ aborted = "no" /\ facade = "pull" /\ ~CleanDue
  /\ R.aborted = "no" /\ ~R.rolled
  /\ Serves(R, c) /\ Len(client_map[c].requests) >= 2

C31_Placeholder ==
  \A c \in DOMAIN client_map, rp \in ReqParamsSet, ub \in {1, 2} :
    (aborted = "no" /\ facade = "pull" /\ has_request(client_map[c])
       /\ Added(ub, c, rp).aborted = "no")
      => PlaceholderOnly(Added(ub, c, rp), c)

C31_Retag ==
  \A c \in DOMAIN client_map, ub \in {1, 2} :
    PopsOneOfTwo(Pulled(ub), c)
      => /\ HeadRetagged(Pulled(ub), c)
         /\ HeadIsPrev(Pulled(ub).client_map[c])

C31_HeadIsPrev ==
  aborted = "no" =>
    \A c \in DOMAIN client_map :
      has_request(client_map[c]) => HeadIsPrev(client_map[c])


\* C31: with deferred tags, an add_request for a client whose queue is not
\* empty appends a placeholder and changes neither prev_tag nor the
\* client's position in any heap; the request that becomes head at a pop
\* is tagged from the popped request's tag, its own arrival time and the
\* client's latest (rho, delta), and prev_tag is set to that tag; so
\* whenever a client has a pending request, the finite fields of prev_tag
\* are those of its head request's tag.
C31_DeferredTags == C31_Placeholder /\ C31_Retag /\ C31_HeadIsPrev

-----------------------------------------------------------------------------
(* Reservation-tag reduction at a dispatch.  P is the state do_next_request
   leaves, R the state after pop_process_request *)

\* the dispatch a call of the facade made now would make
Dispatching(ub) == IF facade = "pull" THEN Pulled(ub) ELSE Scheduled(ub)

\* the reservation tags of a client: of its queued requests, in order, and
\* of prev_tag
ResvTags(M, d) ==
  <<[i \in 1 .. Len(M[d].requests) |-> M[d].requests[i].tag.reservation],
    M[d].prev_tag.reservation>>

\* a call made now that dispatches a request of client c from heap h
DispatchesFrom(R, c, h) ==
  /\ aborted = "no" /\ ~CleanDue
  /\ R.aborted = "no"
  /\ Serves(R, c) /\ R.processed.heap = h

\* the window is active at the dispatch
WindowActive(P) == now - P.win_start < win_size

\* the reservation tag the constructor gives the request behind the head
NextResv(P, c) ==
  RequestTag(next_request(Rec(P, c)).tag, client_info_wrapper(P, c),
             Rec(P, c).cur_delta, Rec(P, c).cur_rho,
             Rec(P, c).requests[2].tag.arrival,
             anticipation_timeout).reservation

\* the reservation tags of c after its head has been popped, by the normal
\* recurrence: a request that becomes head is tagged, prev_tag follows it
Recurrence(P, c) ==
  IF Len(Rec(P, c).requests) >= 2
  THEN <<[i \in 1 .. Len(Rec(P, c).requests) - 1 |->
            IF i = 1 THEN NextResv(P, c)
            ELSE Rec(P, c).requests[i + 1].tag.reservation],
         assign_unpinned_tag(Rec(P, c).prev_tag.reservation, NextResv(P, c))>>
  ELSE << << >>, Rec(P, c).prev_tag.reservation>>

\* the recurrence, with dec taken once from the front request's
\* reservation tag and once from prev_tag.reservation
Reduced(tags, dec) ==
  <<[i \in DOMAIN tags[1] |->
       IF i = 1 THEN TagAdd(tags[1][i], 0 - dec) ELSE tags[1][i]],
    TagAdd(tags[2], 0 - dec)>>

\* reservation_inv of the info the scheduler uses for c: the compensated
\* one for a client of class R
CompensatedInv(P, c) ==
  IF Rec(P, c).info.client_type = "R"
  THEN P.compensated_client_map[c].reservation_inv
  ELSE Rec(P, c).info.reservation_inv

\* the reservation tags of every other client are left alone
OthersKept(P, R, c) ==
  \A d \in DOMAIN P.client_map \ {c} :
    ResvTags(R.client_map, d) = ResvTags(P.client_map, d)

\* resv_heap, if its top came first before the pop, has its top first
ResvOrderKept(P, R) == TopFirstIn(P, "resv_heap") => TopFirstIn(R, "resv_heap")

-----------------------------------------------------------------------------
(* Class migration at the window boundary.  P is the state of the roll-over
   loop when it comes to the client, R the state when the loop is done *)

\* a do_next_request made now rolls the window
RollDue ==
  /\ aborted = "no" /\ ~CleanDue
  /\ now - win_start >= win_size
  /\ \E h \in {"resv_heap", "burst_heap", "best_heap"} : heaps[h] # << >>

\* the roll-over loop before it comes to client c: the clients before c in
\* client_map have been processed
BeforeMove(ub, c) ==
  WindowLoop([State(ub) EXCEPT !.win_start = Max(@ + win_size, now),
                               !.rolled = TRUE],
             {d \in DOMAIN client_map : d < c}, info_f)

\* the roll-over of a do_next_request made now
Rolled(ub) == WindowRoll(State(ub), now, info_f)

\* the callback gives c another class than the one it has
Migrates(P, R, c) ==
  /\ P.aborted = "no" /\ R.aborted = "no"
  /\ info_f[c].client_type # Rec(P, c).info.client_type

HeadTags(M, c) ==
  IF has_request(Rec(M, c)) THEN <<next_request(Rec(M, c)).tag>> ELSE << >>

\* prev_tag of c, and the tag of its head request if the top has one, are
\* those of the top of heap dest as it is in P; nothing changes if dest is
\* empty
InheritedFrom(P, R, c, dest) ==
  IF HeapEmpty(P, dest)
  THEN /\ Rec(R, c).prev_tag = Rec(P, c).prev_tag
       /\ HeadTags(R, c) = HeadTags(P, c)
  ELSE /\ Rec(R, c).prev_tag = Rec(P, HeapTop(P, dest)).prev_tag
       /\ HeadTags(R, c) =
            IF has_request(Rec(P, c)) /\ has_request(Rec(P, HeapTop(P, dest)))
            THEN HeadTags(P, HeapTop(P, dest))
            ELSE HeadTags(P, c)

\* C33: a client that changes class at a window boundary gets the prev_tag
\* (and, if it has a pending request and the destination top has one, the
\* head request's tag) of the top of the destination class's dispatch heap
\* as it was before the insertion, and keeps its own if that heap is empty;
\* its queued payloads and their order are unchanged.
C33_Inherit ==
  RollDue =>
    \A c \in DOMAIN client_map, ub \in {1, 2} :
      LET P == BeforeMove(ub, c)
          R == Rolled(ub)
      IN Migrates(P, R, c)
           => /\ InheritedFrom(P, R, c, DestHeap(info_f[c].client_type))
              /\ PayloadsOf(R, c) = PayloadsOf(P, c)

\* a client with a pending request is about to move to a class whose
\* dispatch heap has a top with a pending request and other tags
C33_Witness ==
  /\ RollDue
  /\ \E c \in DOMAIN client_map :
       LET P == BeforeMove(1, c)
           dest == DestHeap(info_f[c].client_type)
       IN /\ Migrates(P, Rolled(1), c)
          /\ has_request(Rec(P, c))
          /\ ~HeapEmpty(P, dest)
          /\ has_request(Rec(P, HeapTop(P, dest)))
          /\ HeadTags(P, HeapTop(P, dest)) # HeadTags(P, c)
          /\ Rec(P, HeapTop(P, dest)).prev_tag # Rec(P, c).prev_tag

-----------------------------------------------------------------------------
(* The assertions of the next_call computation *)

\* the call went through the ladder without dispatching: it came to the
\* next_call computation (a failed assertion there included)
ReachedNextCall(R) ==
  /\ aborted = "no" /\ ~CleanDue
  /\ R.aborted \in {"no", "assert"}
  /\ R.ret.type # "returning"
  /\ \E h \in {"resv_heap", "burst_heap", "best_heap"} : ~HeapEmpty(R, h)

\* the top of heap h, if it has a pending request, has a head request that
\* is not ready or has an infinite proportion tag
TopNotReady(R, h) ==
  (~HeapEmpty(R, h) /\ has_request(Rec(R, HeapTop(R, h))))
    => \/ ~HeadTag(R, HeapTop(R, h)).ready
       \/ HeadTag(R, HeapTop(R, h)).proportion = max_tag

\* C34: the assertions in the next_call computation never fail: whenever
\* do_next_request comes to rule 9, the top of r_limit_heap and the top of
\* limit_heap, if they have a pending request, have a head request that is
\* not ready or has an infinite proportion tag.
C34_NextCallAsserts ==
  \A ub \in {1, 2} :
    LET R == AfterCall(ub)
    IN ReachedNextCall(R)
         => /\ TopNotReady(R, "r_limit_heap")
            /\ TopNotReady(R, "limit_heap")
            /\ R.assert_failed = assert_failed

-----------------------------------------------------------------------------
(* The compensated info of the clients of class R *)

\* the compensated info the rates of c and its r_compensation give
CompensatedOf(rec) ==
  ClientInfo(rec.info.reservation + rec.r_compensation, rec.info.weight,
             rec.info.limit, "R")

\* C35: for every client of class R the ClientInfo used for its tag
\* arithmetic, reservation-tag reduction and post-dispatch heap adjustment
\* has class R, reservation = info.reservation + r_compensation, and the
\* weight and limit of the client's current info.
C35_CompensatedInfo ==
  aborted = "no" =>
    \A c \in DOMAIN client_map :
      client_map[c].info.client_type = "R"
        => client_info_wrapper(State(1), c) = CompensatedOf(client_map[c])

-----------------------------------------------------------------------------
(* pull_request returning none *)

\* client c has a head request that could be dispatched: its proportion
\* tag is finite or, for a client of class R, its reservation tag is
Dispatchable(R, c) ==
  /\ has_request(Rec(R, c))
  /\ \/ HeadTag(R, c).proportion < max_tag
     \/ /\ Rec(R, c).info.client_type = "R"
        /\ HeadTag(R, c).reservation < max_tag

\* C36: pull_request(now) returns none only when no client has a pending
\* request that could ever be dispatched: if some client has a head request
\* with a finite proportion tag (or, for an R client, a finite reservation
\* tag), the result is returning or future, never none.
C36_NoneMeansNothing ==
  (aborted = "no" /\ facade = "pull" /\ ~CleanDue) =>
    \A ub \in {1, 2} :
      LET R == Pulled(ub)
      IN (R.aborted = "no" /\ R.ret.type = "none")
           => \A c \in DOMAIN R.client_map : ~Dispatchable(R, c)

-----------------------------------------------------------------------------
(* The push facade left to itself: the server can always handle a request
   and calls request_completed after every handle_f; run_sched_ahead calls
   schedule_request when the recorded time has come *)

\* bounds of the exploration: add_request calls, and time units of clock
LiveRequests == 3
LiveClock == 30

\* what the callback returns for the clients of these runs
LiveInfos == {<<InfoAlim>>, <<InfoB>>, <<InfoR, InfoB>>}

LiveInit ==
  /\ client_map = << >>
  /\ compensated_client_map = << >>
  /\ heaps = [h \in HeapNames |-> << >>]
  /\ tick = 0
  /\ total_wgt = 0
  /\ win_start = 0
  /\ clean_mark_points = << >>
  /\ sched_ahead_when = TimeZero
  /\ allow_limit_break \in BOOLEAN
  /\ facade = "push"
  /\ aborted = "no"
  /\ assert_failed = FALSE
  /\ now = Epoch
  /\ info_f \in LiveInfos
  /\ last_clean = Epoch
  /\ steps = 0
  /\ admin = 0
  /\ limits = [ticks |-> LiveRequests, steps |-> 0, admin |-> 0,
               capacity |-> system_capacity]
  /\ ahead = AheadStart
  /\ quiet = TRUE
  /\ submitted = [c \in DOMAIN info_f |-> << >>]
  /\ dispatched = [c \in DOMAIN info_f |-> << >>]
  /\ last = NoLast

\* handle_f has been called and request_completed has not yet
Handling == last.type = "returning"

\* add_request(request, client_id, req_params, time) with can_handle_f true
LiveSubmit(c, rp) ==
  /\ c \in DOMAIN info_f /\ ~Handling
  /\ PushAddRequest(c, rp, TRUE)

\* the server's request_completed() after a handle_f
LiveCompleted == Handling /\ RequestCompleted(TRUE)

\* run_sched_ahead when the recorded time has come
LiveSchedAhead == ~Handling /\ SchedAhead(TRUE)

LiveClean == ~Handling /\ DoClean

\* the clock goes on while run_sched_ahead has a time to wait for; with no
\* time recorded no thread of the queue reads the clock
LiveTick ==
  /\ Running /\ ~Handling
  /\ sched_ahead_when # TimeZero
  /\ now < Epoch + LiveClock
  /\ now' = now + 1
  /\ UNCHANGED <<client_map, compensated_client_map, heaps, tick, total_wgt,
                 win_start, clean_mark_points, sched_ahead_when,
                 allow_limit_break, facade, limits, ahead, aborted,
                 assert_failed, info_f, last_clean, steps, admin, quiet,
                 submitted, dispatched, last>>

LiveNext ==
  \/ \E c \in Clients, rp \in ReqParamsSet : LiveSubmit(c, rp)
  \/ LiveCompleted
  \/ LiveSchedAhead
  \/ LiveClean
  \/ LiveTick

\* the server, the run_sched_ahead thread, the cleaning job and the clock
\* go on; nobody is bound to call add_request
LiveSpec ==
  /\ LiveInit /\ [][LiveNext]_vars
  /\ WF_vars(LiveCompleted) /\ WF_vars(LiveSchedAhead)
  /\ WF_vars(LiveClean) /\ WF_vars(LiveTick)

\* some accepted request has not been passed to handle_f
Backlog == \E c \in DOMAIN submitted : submitted[c] # dispatched[c]

\* the clock has come to the end of the exploration, or the process has
\* died
AtHorizon == now >= Epoch + LiveClock \/ aborted # "no"

\* C37: with can_handle_f true and request_completed called after every
\* handle_f, every request accepted by add_request is eventually passed to
\* handle_f without any further add_request: no request stays queued while
\* the scheduler neither dispatches nor records a time to wake up at.
C37_PushLiveness == Backlog ~> (~Backlog \/ AtHorizon)


-----------------------------------------------------------------------------
(* The cleaning job and the clients that go on submitting *)

\* the tick of the latest add_request call for client c; 0 when there was
\* none
LastAdd(c) ==
  IF submitted[c] = << >> THEN 0 ELSE submitted[c][Len(submitted[c])]

\* do_clean leaves client c in client_map
Kept(R, c) == c \in DOMAIN R.client_map

\* do_clean leaves the idle flag of client c as it was
NotMarked(R, c) == Kept(R, c) => R.client_map[c].idle = client_map[c].idle

\* C38: do_clean neither marks idle nor erases a client for which
\* add_request was called after the mark point the job compares with, and
\* it does not erase a client that has queued requests: none of the
\* queued requests is dropped by the job.
C38_JanitorSpares ==
  (aborted = "no" /\ CleanDue) =>
    \A ub \in {1, 2} :
      LET R == AfterClean(ub)
      IN R.aborted = "no" =>
           \A c \in DOMAIN client_map :
              /\ LastAdd(c) > MarkTick(erase_age) => Kept(R, c)
              /\ Queued(c) # << >> => Kept(R, c)
              /\ LastAdd(c) > MarkTick(idle_age) => NotMarked(R, c)


-----------------------------------------------------------------------------
(* Rule 3 and the B clients that have budget left *)

\* client c of class B, held in burst_heap, has a ready head request with a
\* finite proportion tag and has dispatched less than its budget of the
\* window
BurstReady(R, c) ==
  /\ Rec(R, c).info.client_type = "B"
  /\ \E i \in DOMAIN R.heaps["burst_heap"] : R.heaps["burst_heap"][i] = c
  /\ has_request(Rec(R, c))
  /\ HeadTag(R, c).ready
  /\ HeadTag(R, c).proportion < max_tag
  /\ UnderBudget(R, Rec(R, c).b_counter, Rec(R, c).resource, 0)

\* do_next_request returned by rule 1 or by rule 3
ResvOrBurst(R) ==
  R.ret.type = "returning" /\ R.rule \in {"r0_counter", "b_counter"}

\* C39: with allow_limit_break false, when no reservation is due and some
\* B client has a ready head request with a finite proportion tag and
\* b_counter below its budget, do_next_request returns the burst heap: a
\* B client that has used up its budget does not keep a B client with
\* budget left from being dispatched.
C39_BurstServed ==
  (aborted = "no" /\ ~allow_limit_break) =>
    \A ub \in {1, 2} :
      LET R == AfterCall(ub)
      IN (R.aborted = "no" /\ ~ResvOrBurst(R))
           => \A c \in DOMAIN R.client_map : ~BurstReady(R, c)


-----------------------------------------------------------------------------
(* The two mutexes of PushPriorityQueue: data_mtx, taken by add_request,
   request_completed and run_sched_ahead around schedule_request, and
   sched_ahead_mtx, taken by run_sched_ahead and by sched_at *)

\* add_request or request_completed holds data_mtx and its sched_at waits
\* for sched_ahead_mtx, which run_sched_ahead holds
CallerWaits == ahead.data_mtx = "caller" /\ HoldsMtx

\* run_sched_ahead waits for data_mtx, which add_request or
\* request_completed holds
AheadWaits ==
  ahead.pc = "if_finishing2" /\ ~ahead.finishing /\ ahead.data_mtx = "caller"

\* run_sched_ahead takes data_mtx in this step
AheadTakesData == ahead.data_mtx # "ahead" /\ ahead'.data_mtx = "ahead"

\* run_sched_ahead takes sched_ahead_mtx in this step
AheadTakesMtx == ~HoldsMtx /\ HoldsMtx'

\* the order of the two mutexes in a step of run_sched_ahead: data_mtx is
\* taken without sched_ahead_mtx, and sched_ahead_mtx is taken with
\* data_mtx given back
LockOrder ==
  /\ AheadTakesData => ~HoldsMtx
  /\ AheadTakesMtx => ahead.data_mtx # "ahead"

\* C40: the push facade does not deadlock on its two mutexes: whatever
\* the interleaving of add_request, request_completed, sched_at and
\* run_sched_ahead, sched_ahead_mtx is taken with data_mtx or with no lock
\* held, data_mtx is never taken with sched_ahead_mtx held, and a thread
\* that waits for a mutex waits for a thread that can go on.
C40_NoDeadlock ==
  /\ [][LockOrder]_vars
  /\ [](ahead.data_mtx = "ahead" => ~HoldsMtx)
  /\ [](CallerWaits => ENABLED AheadThread)
  /\ [](AheadWaits => ENABLED CallerSchedAt)

\* run_sched_ahead has given sched_ahead_mtx back and waits for data_mtx
\* while a caller that holds data_mtx is about to take sched_ahead_mtx in
\* sched_at
C40_Witness == AheadWaits /\ ahead.calls > 0 /\ ~HoldsMtx

====
